---- MODULE Spec2Model ----
(***************************************************************************)
(* Community-Connect: the A/B test manager (api/utils/ab_testing.py), its  *)
(* callers (signals.py, views.py) and the recommendation batch driver      *)
(* (management/commands/build_recommendations.py) as state machines.       *)
(*                                                                         *)
(* Dates are whole days.  Probability weights and hash values are in       *)
(* thousandths (0.5 is 500), scores in hundredths (0.8 is 80).             *)
(***************************************************************************)
EXTENDS Integers, Sequences, FiniteSets, TLC

\* ------------------------------------------------------------------ bounds
\* The clock runs over the days 0..MaxDay.
MaxDay == 3

\* ---------------------------------------------------------------- universe
Users == {1, 2}
Callers == {"w1", "w2"}

\* The user ids that register while the A/B manager is observed.
Members == {1}

\* ----------------------------------------------- experiment configuration
\* load_experiment_configs: the two default experiments.
ExperimentNames == {"recommendation_weights", "cold_start_strategy"}

\* The names the workers ask for directly: one configured and one,
\* "recommendation_count", that the registration hook names and no
\* configuration holds.
CallNames == {"recommendation_weights", "recommendation_count"}

\* 'start_date': '2024-01-01' and 'end_date': '2024-12-31', as day numbers.
StartDate == 1
EndDate == 2

\* experiment['variants'], in dictionary (insertion) order.
Variants(e) ==
    IF e = "recommendation_weights"
    THEN << [name |-> "balanced", weight |-> 500],
            [name |-> "collaborative_heavy", weight |-> 250],
            [name |-> "content_heavy", weight |-> 250] >>
    ELSE IF e = "cold_start_strategy"
    THEN << [name |-> "popular_providers", weight |-> 500],
            [name |-> "category_based", weight |-> 500] >>
    ELSE << >>

VariantNames(e) == {Variants(e)[i].name : i \in 1..Len(Variants(e))}

\* int(md5("{user.id}:{experiment_name}").hexdigest(), 16) % 1000 for the user
\* ids of the model (the values hashlib.md5 gives): users 1 and 2, and the
\* four ids whose buckets lie at the borders of the default weights.
HashBucket(u, e) ==
    IF e = "recommendation_weights"
    THEN CASE u = 1 -> 660 [] u = 26 -> 501 [] u = 158 -> 750
           [] u = 963 -> 751 [] u = 1562 -> 500 [] OTHER -> 472
    ELSE IF e = "cold_start_strategy"
    THEN CASE u = 1 -> 741 [] u = 26 -> 791 [] u = 158 -> 670
           [] u = 963 -> 282 [] u = 1562 -> 395 [] OTHER -> 313
    ELSE CASE u = 1 -> 439 [] u = 26 -> 738 [] u = 158 -> 118
           [] u = 963 -> 835 [] u = 1562 -> 36 [] OTHER -> 615

\* The loop over experiment['variants']: the first variant whose cumulative
\* weight is at least the normalized hash, 'control' when none is.
RECURSIVE WalkVariants(_, _, _, _)
WalkVariants(vs, i, cumulative_weight, normalized_hash) ==
    IF i > Len(vs) THEN "control"
    ELSE LET c == cumulative_weight + vs[i].weight
         IN  IF normalized_hash <= c THEN vs[i].name
             ELSE WalkVariants(vs, i + 1, c, normalized_hash)

HashVariant(u, e) == WalkVariants(Variants(e), 1, 0, HashBucket(u, e))

VARIABLES
    today,          \* timezone.now(), in days
    expActive,      \* experiment name -> its 'active' flag (settings.AB_TEST_EXPERIMENTS)
    users,          \* ids of the User rows
    assignments,    \* the ABTestVariant table
    call,           \* caller -> the request it is serving
    lastReturned,   \* the variant assign/get last returned for the observed pair
    lastActive,     \* whether that call found the experiment active and the
                    \* pair's row was not deleted since
    behaviors,      \* the UserBehavior table
    favorites,      \* the Favorite table, as (user, provider) pairs
    recs,           \* the UserRecommendation table, as committed
    txn,            \* the batch driver's open transaction.atomic() block
    savedModel,     \* collaborative_filtering.pkl in RECOMMENDATION_MODEL_DIR
    drv,            \* the build_recommendations command in progress
    reviews,        \* the Review rows the users wrote
    reply,          \* the last request to ReviewCreateView and its answer
    cache,          \* the keys django.core.cache holds
    hasDeletePattern, \* whether the cache backend has delete_pattern
    probe,          \* the engine call under observation: its arguments and result
    engine          \* a CollaborativeFilteringEngine instance shared by its callers

abVars == << today, expActive, users, assignments, call, lastReturned, lastActive >>

buildVars == << behaviors, favorites, recs, txn, savedModel, drv >>

cacheVars == << cache, hasDeletePattern >>

auxVars == << reply, cacheVars, probe, engine >>

vars == << abVars, buildVars, reviews, auxVars >>

\* is_experiment_active
IsExperimentActive(e, act, day) ==
    /\ e \in ExperimentNames
    /\ act[e]
    /\ StartDate <= day
    /\ day <= EndDate

\* ABTestVariant.objects.filter(user=user, experiment_name=experiment_name)
Existing(rows, u, e) == {r \in rows : r.user = u /\ r.experiment_name = e}

\* .first() of that queryset, as the variant it holds
FirstVariant(rows, u, e) == (CHOOSE r \in Existing(rows, u, e) : TRUE).variant

\* A create that stores the default variant instead of the one it returns.
NewRowStoresControl(u, e, v, day) ==
    [user |-> u, experiment_name |-> e, variant |-> "control", assigned_at |-> day]

NewRow(u, e, v, day) ==
    [user |-> u, experiment_name |-> e, variant |-> v, assigned_at |-> day]

\* A table without the constraint: no insert is refused.
UniqueViolationNever(rows, u, e) == FALSE

\* unique_together = ['user', 'experiment_name']: the insert is refused
UniqueViolation(rows, u, e) == Existing(rows, u, e) # {}

\* ------------------------------------------------------------ A/B manager
Idle ==
    [op |-> "none", user |-> 0, exp |-> "none", pc |-> "idle",
     variant |-> "none", result |-> "none", idx |-> 0]

\* The caller has its answer x.
Done(c, x) ==
    [Idle EXCEPT !.op = c.op, !.user = c.user, !.exp = c.exp,
                 !.pc = "done", !.result = x]

\* The (user, experiment) pair whose returned variants the history records.
Observed == << 1, "recommendation_weights" >>

\* assign_user_to_variant without its is_experiment_active test.
AssignOutcomeNoActiveCheck(rows, act, day, u, e) ==
    IF e \notin ExperimentNames
    THEN [kind |-> "return", value |-> "control"]
    ELSE IF Existing(rows, u, e) # {}
    THEN [kind |-> "return", value |-> FirstVariant(rows, u, e)]
    ELSE [kind |-> "create", value |-> HashVariant(u, e)]

\* assign_user_to_variant up to its insert: what it returns at once, or the
\* variant it goes on to insert.
AssignOutcome(rows, act, day, u, e) ==
    IF e \notin ExperimentNames
    THEN [kind |-> "return", value |-> "control"]
    ELSE IF ~IsExperimentActive(e, act, day)
    THEN [kind |-> "return", value |-> "control"]
    ELSE IF Existing(rows, u, e) # {}
    THEN [kind |-> "return", value |-> FirstVariant(rows, u, e)]
    ELSE [kind |-> "create", value |-> HashVariant(u, e)]

\* The experiments the registration hook walks through, in order.
HookExperiments ==
    << "recommendation_weights", "cold_start_strategy", "recommendation_count" >>

HookNext(c) ==
    IF c.idx >= Len(HookExperiments)
    THEN Done([c EXCEPT !.exp = "none"], "ok")
    ELSE [c EXCEPT !.pc = "hook", !.idx = @ + 1, !.exp = "none", !.variant = "none"]

\* Where a caller goes on when its assign_user_to_variant returned v.
AfterAssign(c, v) ==
    CASE c.op \in {"assign", "get"} -> Done(c, v)
      [] c.op = "hook" -> HookNext(c)

\* Where a caller goes on when its assign_user_to_variant raised x: only the
\* hook catches it.
AfterRaise(c, x) ==
    CASE c.op \in {"assign", "get"} -> Done(c, x)
      [] c.op = "hook" -> Done([c EXCEPT !.exp = "none"], "logged")

\* assign_user_to_variant or get_user_variant returns v for (u, e).
NoteReturn(u, e, v) ==
    IF <<u, e>> = Observed
    THEN /\ lastReturned' = v
         /\ lastActive' = IsExperimentActive(e, expActive, today)
    ELSE UNCHANGED << lastReturned, lastActive >>

\* force_assign_user on (u, e), or a change of the configuration of e.
ForgetReturn(u, e) ==
    IF <<u, e>> = Observed
    THEN /\ lastReturned' = "none"
         /\ lastActive' = FALSE
    ELSE UNCHANGED << lastReturned, lastActive >>

\* The body of assign_user_to_variant(c.user, c.exp) up to the insert.
RunAssign(p, c) ==
    LET o == AssignOutcome(assignments, expActive, today, c.user, c.exp)
    IN  /\ IF o.kind = "return"
           THEN /\ call' = [call EXCEPT ![p] = AfterAssign(c, o.value)]
                /\ NoteReturn(c.user, c.exp, o.value)
           ELSE /\ call' = [call EXCEPT ![p] =
                               [c EXCEPT !.pc = "create", !.variant = o.value]]
                /\ UNCHANGED << lastReturned, lastActive >>
        /\ UNCHANGED << reviews, auxVars, today, expActive, users, assignments, buildVars >>

\* A caller enters assign_user_to_variant(u, e) directly.
CallAssign(p, u, e) ==
    /\ call[p].pc = "idle"
    /\ RunAssign(p, [Idle EXCEPT !.op = "assign", !.user = u, !.exp = e])

\* assign_user_to_variant entered from get_user_variant or the hook.
AssignStep(p) ==
    /\ call[p].pc = "assign"
    /\ RunAssign(p, call[p])

\* ABTestVariant.objects.create(...) and the return that follows it.
CreateStep(p) ==
    LET c == call[p]
    IN  /\ c.pc = "create"
        /\ IF UniqueViolation(assignments, c.user, c.exp)
           THEN /\ call' = [call EXCEPT ![p] = AfterRaise(c, "IntegrityError")]
                /\ UNCHANGED << assignments, lastReturned, lastActive >>
           ELSE /\ assignments' =
                       assignments \cup {NewRow(c.user, c.exp, c.variant, today)}
                /\ call' = [call EXCEPT ![p] = AfterAssign(c, c.variant)]
                /\ NoteReturn(c.user, c.exp, c.variant)
        /\ UNCHANGED << reviews, auxVars, today, expActive, users, buildVars >>

\* get_user_variant: the stored variant, or on DoesNotExist the assignment.
CallGet(p, u, e) ==
    /\ call[p].pc = "idle"
    /\ IF Existing(assignments, u, e) # {}
       THEN LET v == FirstVariant(assignments, u, e)
            IN  /\ call' = [call EXCEPT ![p] =
                       Done([Idle EXCEPT !.op = "get", !.user = u, !.exp = e], v)]
                /\ NoteReturn(u, e, v)
       ELSE /\ call' = [call EXCEPT ![p] =
                       [Idle EXCEPT !.op = "get", !.user = u, !.exp = e,
                                    !.pc = "assign"]]
            /\ UNCHANGED << lastReturned, lastActive >>
    /\ UNCHANGED << reviews, auxVars, today, expActive, users, assignments, buildVars >>

\* force_assign_user up to and including the delete of the existing rows.
CallForce(p, u, e, v) ==
    /\ call[p].pc = "idle"
    /\ IF e \notin ExperimentNames \/ v \notin VariantNames(e)
       THEN /\ call' = [call EXCEPT ![p] =
                       Done([Idle EXCEPT !.op = "force", !.user = u], "False")]
            /\ UNCHANGED << assignments, lastReturned, lastActive >>
       ELSE /\ assignments' = assignments \ Existing(assignments, u, e)
            /\ call' = [call EXCEPT ![p] =
                       [Idle EXCEPT !.op = "force", !.user = u, !.exp = e,
                                    !.pc = "fcreate", !.variant = v]]
            /\ ForgetReturn(u, e)
    /\ UNCHANGED << reviews, auxVars, today, expActive, users, buildVars >>

\* force_assign_user: the create of the new row.
ForceCreate(p) ==
    LET c == call[p]
    IN  /\ c.pc = "fcreate"
        /\ IF UniqueViolation(assignments, c.user, c.exp)
           THEN /\ call' = [call EXCEPT ![p] =
                       Done([c EXCEPT !.exp = "none"], "IntegrityError")]
                /\ UNCHANGED assignments
           ELSE /\ assignments' =
                       assignments \cup {NewRow(c.user, c.exp, c.variant, today)}
                /\ call' = [call EXCEPT ![p] =
                       Done([c EXCEPT !.exp = "none"], "True")]
        /\ ForgetReturn(c.user, c.exp)
        /\ UNCHANGED << reviews, auxVars, today, expActive, users, buildVars >>

\* post_save of a new User: assign_ab_test_on_registration starts its loop.
Register(p, u) ==
    /\ call[p].pc = "idle"
    /\ u \notin users
    /\ users' = users \cup {u}
    /\ call' = [call EXCEPT ![p] =
                   [Idle EXCEPT !.op = "hook", !.user = u, !.pc = "hook", !.idx = 1]]
    /\ UNCHANGED << reviews, auxVars, today, expActive, assignments, lastReturned, lastActive, buildVars >>

\* One turn of the hook's loop: is_experiment_active, then assign_user_to_variant.
HookStep(p) ==
    LET c == call[p]
        e == HookExperiments[c.idx]
    IN  /\ c.pc = "hook"
        /\ call' = [call EXCEPT ![p] =
                       IF IsExperimentActive(e, expActive, today)
                       THEN [c EXCEPT !.pc = "assign", !.exp = e]
                       ELSE HookNext(c)]
        /\ UNCHANGED << reviews, auxVars, today, expActive, users, assignments, lastReturned, lastActive, buildVars >>

\* ABTestAssignmentView.create: 400 without a name, the stored row when there
\* is one, and otherwise the import of a module-level assign_user_to_variant,
\* which api/utils/ab_testing.py does not define.
CallEndpoint(p, u, name) ==
    /\ call[p].pc = "idle"
    /\ call' = [call EXCEPT ![p] =
                   Done([Idle EXCEPT !.op = "endpoint", !.user = u],
                        IF name = "none" THEN "HTTP_400"
                        ELSE IF Existing(assignments, u, name) # {}
                        THEN "HTTP_200"
                        ELSE "ImportError")]
    /\ UNCHANGED << reviews, auxVars, today, expActive, users, assignments, lastReturned, lastActive, buildVars >>

\* The caller has its answer; the worker is free again.
Return(p) ==
    /\ call[p].pc = "done"
    /\ call' = [call EXCEPT ![p] = Idle]
    /\ UNCHANGED << reviews, auxVars, today, expActive, users, assignments, lastReturned, lastActive, buildVars >>

Keys(rows) == {<<r.user, r.experiment_name>> : r \in rows}

\* cleanup_expired_assignments(days)
ExpiredAssignments(rows, day, days) == {r \in rows : r.assigned_at < day - days}

CleanupExpiredAssignments(days) ==
    LET gone == ExpiredAssignments(assignments, today, days)
    IN  /\ gone # {}
        /\ assignments' = assignments \ gone
        /\ lastActive' = (lastActive /\ Observed \notin Keys(gone))
        /\ UNCHANGED << reviews, auxVars, today, expActive, users, call, lastReturned, buildVars >>

\* cleanup_ended_experiments(days)
EndedAssignments(rows, day, days) ==
    {r \in rows : r.experiment_name \in ExperimentNames /\ EndDate < day - days}

CleanupEndedExperiments(days) ==
    LET gone == EndedAssignments(assignments, today, days)
    IN  /\ gone # {}
        /\ assignments' = assignments \ gone
        /\ lastActive' = (lastActive /\ Observed \notin Keys(gone))
        /\ UNCHANGED << reviews, auxVars, today, expActive, users, call, lastReturned, buildVars >>

\* A day passes.
Tick ==
    /\ today < MaxDay
    /\ today' = today + 1
    /\ UNCHANGED << reviews, auxVars, expActive, users, assignments, call, lastReturned, lastActive, buildVars >>

\* settings.AB_TEST_EXPERIMENTS is redeployed with the 'active' flag of e
\* flipped: a change of configuration.
SetActive(e) ==
    /\ expActive' = [expActive EXCEPT ![e] = ~@]
    /\ ForgetReturn(Observed[1], e)
    /\ UNCHANGED << reviews, auxVars, today, users, assignments, call, buildVars >>

\* The experiments whose 'active' flag a redeployment flips.
Redeployed == {"recommendation_weights"}

\* The day counts handed to the two cleanups.
CleanupDays == {0, 1}

\* ===================================================== recommendation build
\* ------------------------------------------------------------- the catalog
\* The active Provider rows, the Category rows in Meta.ordering (by name) and
\* the Review rows other customers left: a fixed catalog.
Providers == {1, 2, 3}

Categories == << 1, 2 >>

\* The number of Service rows of provider p in category c.
ServiceCount(p, c) ==
    CASE p = 1 -> 1
      [] p = 2 -> (IF c = 1 THEN 1 ELSE 0)
      [] p = 3 -> (IF c = 2 THEN 3 ELSE 0)

\* The ratings of the Review rows other customers left for provider p.
CatalogRatings(p) ==
    CASE p = 1 -> << 5, 5, 5, 4, 4 >>
      [] p = 2 -> << 5, 4, 4, 4, 4, 4 >>
      [] p = 3 -> << 5, 5 >>

RECURSIVE RatingsIn(_)
RatingsIn(rows) ==
    IF rows = {} THEN << >>
    ELSE LET r == CHOOSE x \in rows : TRUE
         IN  << r.rating >> \o RatingsIn(rows \ {r})

\* The ratings of the Review rows of provider p.
ProviderRatings(p) == CatalogRatings(p) \o RatingsIn({r \in reviews : r.provider = p})

\* Whether provider p has an address with latitude and longitude.
HasCoordinate(p) == p \in {1, 2}

RECURSIVE SumSeq(_)
SumSeq(q) == IF q = << >> THEN 0 ELSE Head(q) + SumSeq(Tail(q))

RECURSIVE SetToSeq(_)
SetToSeq(S) ==
    IF S = {} THEN << >>
    ELSE LET m == CHOOSE x \in S : \A y \in S : x <= y
         IN  << m >> \o SetToSeq(S \ {m})

Take(q, n) == IF Len(q) <= n THEN q ELSE SubSeq(q, 1, n)

Range(q) == {q[i] : i \in 1..Len(q)}

\* ------------------------------------------------------ ColdStartHandler
\* Count('reviews') of get_popular_providers: the rows of the join, which the
\* category filter multiplies by the provider's services in the category
\* (c = 0: no category filter).
ReviewCount(p, c) ==
    IF c = 0 THEN Len(ProviderRatings(p))
    ELSE Len(ProviderRatings(p)) * ServiceCount(p, c)

\* avg_rating__gte=4.0 and review_count__gte=5
IsPopular(p, c) ==
    /\ c # 0 => ServiceCount(p, c) > 0
    /\ Len(ProviderRatings(p)) > 0
    /\ SumSeq(ProviderRatings(p)) >= 4 * Len(ProviderRatings(p))
    /\ ReviewCount(p, c) >= 5

\* order_by('-avg_rating', '-review_count'): p comes before q
RanksBefore(p, q, c) ==
    LET sp == SumSeq(ProviderRatings(p))
        sq == SumSeq(ProviderRatings(q))
        np == Len(ProviderRatings(p))
        nq == Len(ProviderRatings(q))
    IN  \/ sp * nq > sq * np
        \/ sp * nq = sq * np /\ ReviewCount(p, c) > ReviewCount(q, c)
        \/ sp * nq = sq * np /\ ReviewCount(p, c) = ReviewCount(q, c) /\ p < q

RECURSIVE Ranked(_, _)
Ranked(S, c) ==
    IF S = {} THEN << >>
    ELSE LET m == CHOOSE x \in S : \A y \in S \ {x} : RanksBefore(x, y, c)
         IN  << m >> \o Ranked(S \ {m}, c)

\* get_popular_providers(category_ids=[c], top_k=top_k)
get_popular_providers(c, top_k) ==
    Take(Ranked({p \in Providers : IsPopular(p, c)}, c), top_k)

\* get_category_based_recommendations: two popular providers of each of the
\* first five categories, concatenated.
RECURSIVE CategoryWalk(_)
CategoryWalk(i) ==
    IF i > Len(Categories) \/ i > 5 THEN << >>
    ELSE get_popular_providers(Categories[i], 2) \o CategoryWalk(i + 1)

get_category_based_recommendations(top_k) == Take(CategoryWalk(1), top_k)

\* generate_cold_start_recommendations: the list the strategy gives, with the
\* score max(0.3, 0.8 - 0.05 * i) of its rank i (from 0).
ColdStartScore(i) == IF 80 - 5 * i > 30 THEN 80 - 5 * i ELSE 30

\* The format loop of generate_cold_start_recommendations.
ColdStartList(provider_ids, strategy) ==
    [i \in 1..Len(provider_ids) |->
        [provider_id |-> provider_ids[i],
         score |-> ColdStartScore(i - 1),
         algorithm_version |-> "cold_start_" \o strategy \o "_v1.0"]]

generate_cold_start_recommendations(strategy, max_recommendations) ==
    LET provider_ids ==
            IF strategy = "category_based"
            THEN get_category_based_recommendations(max_recommendations)
            ELSE get_popular_providers(0, max_recommendations)
    IN  ColdStartList(provider_ids, strategy)

\* --------------------------------------------- A/B manager, as the driver
\* get_user_variant run to its end by the single driver process: the
\* variant it returns and the ABTestVariant table it leaves.
GetUserVariant(rows, act, day, u, e) ==
    IF Existing(rows, u, e) # {}
    THEN [variant |-> FirstVariant(rows, u, e), rows |-> rows]
    ELSE LET o == AssignOutcome(rows, act, day, u, e)
         IN  IF o.kind = "return"
             THEN [variant |-> o.value, rows |-> rows]
             ELSE [variant |-> o.value,
                   rows |-> rows \cup {NewRow(u, e, o.value, day)}]

\* The 'config' of the variants of recommendation_weights, in hundredths,
\* and the default of get_recommendation_weights for any other variant.
get_recommendation_weights(variant) ==
    CASE variant = "collaborative_heavy" ->
            [collaborative_weight |-> 60, content_weight |-> 20, location_weight |-> 20]
      [] variant = "content_heavy" ->
            [collaborative_weight |-> 20, content_weight |-> 60, location_weight |-> 20]
      [] OTHER ->
            [collaborative_weight |-> 33, content_weight |-> 33, location_weight |-> 34]

\* get_cold_start_strategy: the 'strategy' of the variant's config, and
\* 'popular_providers' for a variant without one.
get_cold_start_strategy(variant) ==
    IF variant \in VariantNames("cold_start_strategy") THEN variant
    ELSE "popular_providers"

\* ------------------------------------------------------------ the engines
\* build_interaction_matrix: the users and the providers of the favourites,
\* the reviews and the view and contact events.
MatrixUsers(behs, favs, revs) ==
    {f[1] : f \in favs}
        \cup {r.user : r \in revs}
        \cup {b.user : b \in {x \in behs : x.action_type \in {"view", "contact"}
                                          /\ x.provider # 0}}

MatrixProviders(behs, favs, revs) ==
    {f[2] : f \in favs}
        \cup {p \in Providers : Len(CatalogRatings(p)) > 0}
        \cup {r.provider : r \in revs}
        \cup {b.provider : b \in {x \in behs : x.action_type \in {"view", "contact"}
                                              /\ x.provider # 0}}

Untrained == [is_trained |-> FALSE, user_index_map |-> {}, provider_index_map |-> {}]

\* CollaborativeFilteringEngine.train on a new engine; fitted says whether
\* TruncatedSVD(n_components=50) accepted the matrix.  The index maps are
\* written before the fit.
CfTrain(behs, favs, revs, fitted) ==
    IF MatrixProviders(behs, favs, revs) = {} THEN Untrained
    ELSE [is_trained |-> fitted,
          user_index_map |-> MatrixUsers(behs, favs, revs),
          provider_index_map |-> MatrixProviders(behs, favs, revs)]

\* CollaborativeFilteringEngine.predict_scores: the providers it scores
CfScored(cf, u, provider_ids) ==
    IF ~cf.is_trained \/ u \notin cf.user_index_map THEN {}
    ELSE provider_ids \cap cf.provider_index_map

\* np.dot(user_vector, provider_vector) as the factors give it, in hundredths.
DotChoices == {-20, 90}

\* CollaborativeFilteringEngine.predict_scores: the mapping it returns, dot
\* being the products of the factors.
predict_scores(cf, u, provider_ids, dot) ==
    [p \in CfScored(cf, u, provider_ids) |-> IF dot[p] > 0 THEN dot[p] ELSE 0]

\* ContentBasedEngine.get_user_preferences
get_user_preferences(behs, favs, revs, u) ==
    {f[2] : f \in {x \in favs : x[1] = u}}
        \cup {r.provider : r \in {x \in revs : x.user = u}}
        \cup {b.provider : b \in {x \in behs : x.user = u /\ x.provider # 0}}

\* ContentBasedEngine.predict_scores: the providers it scores (the index map
\* of a trained content engine holds every active provider)
ContentScored(trained, behs, favs, revs, u, provider_ids) ==
    IF ~trained THEN {}
    ELSE IF get_user_preferences(behs, favs, revs, u) \cap Providers = {} THEN {}
    ELSE provider_ids \cap Providers

\* LocationBasedEngine.predict_scores: the providers it scores, with the
\* location argument or else the centroid of the user's geo-tagged events
LocationScored(behs, u, provider_ids, user_location) ==
    IF ~user_location /\ {b \in behs : b.user = u /\ b.geo} = {} THEN {}
    ELSE {p \in provider_ids : HasCoordinate(p)}

\* Command.get_user_location_preference: whether the user has an event with
\* coordinates in the last LocationDays days, whose location the command
\* hands to the engines.
LocationDays == 30

get_user_location_preference(behs, u, day) ==
    \E b \in behs : b.user = u /\ b.geo /\ b.day >= day - LocationDays

\* HybridRecommendationEngine.generate_recommendations, the combination:
\* the weights are read under 'collaborative', 'content' and 'location'.
KeyErrorIn(weights, scores, key) == DOMAIN scores # {} /\ key \notin DOMAIN weights

\* A combination that divides by the weight of every engine, scoring or not.
PartOfWholeWeight(weights, scores, key, p) ==
    IF p \in DOMAIN scores
    THEN [num |-> scores[p] * weights[key], den |-> weights[key]]
    ELSE [num |-> 0, den |-> weights[key]]

Part(weights, scores, key, p) ==
    IF p \in DOMAIN scores
    THEN [num |-> scores[p] * weights[key], den |-> weights[key]]
    ELSE [num |-> 0, den |-> 0]

Combined(weights, cf_scores, content_scores, location_scores, p) ==
    LET a == Part(weights, cf_scores, "collaborative", p)
        b == Part(weights, content_scores, "content", p)
        c == Part(weights, location_scores, "location", p)
    IN  [provider_id |-> p,
         num |-> a.num + b.num + c.num,
         den |-> a.den + b.den + c.den]

\* sorted(..., key=score, reverse=True): a stable sort, so equal scores keep
\* the order of the candidates.
RECURSIVE InsertDesc(_, _)
InsertDesc(x, q) ==
    IF q = << >> THEN << x >>
    ELSE IF x.num * Head(q).den > Head(q).num * x.den
    THEN << x >> \o q
    ELSE << Head(q) >> \o InsertDesc(x, Tail(q))

RECURSIVE SortDesc(_)
SortDesc(q) ==
    IF q = << >> THEN << >>
    ELSE InsertDesc(q[Len(q)], SortDesc(SubSeq(q, 1, Len(q) - 1)))

generate_recommendations(weights, candidate_providers, cf_scores, content_scores, location_scores, top_k) ==
    IF \/ KeyErrorIn(weights, cf_scores, "collaborative")
       \/ KeyErrorIn(weights, content_scores, "content")
       \/ KeyErrorIn(weights, location_scores, "location")
    THEN [error |-> "KeyError", list |-> << >>]
    ELSE LET all == [i \in 1..Len(candidate_providers) |->
                        Combined(weights, cf_scores, content_scores,
                                 location_scores, candidate_providers[i])]
             kept == SelectSeq(all, LAMBDA x : x.den > 0)
         IN  [error |-> "none", list |-> Take(SortDesc(kept), top_k)]

\* --------------------------------------------------- the build command
\* --min-score, --max-recommendations and --batch-size as the runs give them
\* (0.1, 20 and 100 are the defaults), and the ids --user-id is given.
MinScore == 10

Trainings == {"retrain", "load", "skip"}

\* The command lines of the runs: a dry run, --user-id, and the batch run.
BuildOptions ==
    [dry_run : {TRUE}, training : Trainings, user_id : {0}, full_rebuild : {FALSE},
     batch_size : {100}, max_recommendations : {20}]
    \cup [dry_run : {FALSE}, training : Trainings, user_id : Users \cup {9},
          full_rebuild : {FALSE}, batch_size : {100}, max_recommendations : {2, 20}]
    \cup [dry_run : {FALSE}, training : Trainings, user_id : {0},
          full_rebuild : BOOLEAN, batch_size : {1, 100},
          max_recommendations : {2, 20}]

\* Hours of RECOMMENDATION_CACHE_TIMEOUT, as days.
TtlDays == 1

\* What the engines may answer for a provider they score, in hundredths.
ScoreChoices == {5, 90}

NoTxn == [open |-> FALSE, needs_rollback |-> FALSE, recs |-> {}, assignments |-> {}]

NoLog == [u \in Users |-> [outcome |-> "none", list |-> << >>]]

DrvIdle ==
    [pc |-> "idle", mode |-> "none", dry_run |-> FALSE, max_recommendations |-> 0,
     batch_size |-> 0, queue |-> << >>, batch |-> << >>, cur |-> 0,
     list |-> << >>, had |-> FALSE, cf |-> Untrained, content |-> FALSE,
     log |-> NoLog, result |-> "none"]

\* The process has ended: what is left of it is its output.
Finished(d, result) == [DrvIdle EXCEPT !.pc = "done", !.result = result, !.log = d.log]

\* The tables as the driver's connection sees them.
CurRecs == IF txn.open THEN txn.recs ELSE recs

CurAssignments == IF txn.open THEN txn.assignments ELSE assignments

RecsOf(table, u) == {r \in table : r.user = u}

Unexpired(table, day) == {r \in table : r.expires_at > day}

\* The UserRecommendation rows save_user_recommendations builds from a list.
RecordsOf(u, list, day) ==
    {[user |-> u, provider |-> list[i].provider_id, score |-> list[i].score,
      algorithm_version |-> list[i].algorithm_version,
      expires_at |-> day + TtlDays] : i \in 1..Len(list)}

\* unique_together = ['user', 'provider'] of UserRecommendation: bulk_create
\* of the list is refused.
RecUniqueViolation(table, u, list) ==
    \/ \E i, j \in 1..Len(list) : i # j /\ list[i].provider_id = list[j].provider_id
    \/ \E i \in 1..Len(list) : \E r \in RecsOf(table, u) : r.provider = list[i].provider_id

\* timedelta(days=7): how far back an event counts as recent.
RecentDays == 7

\* The users build_all_recommendations selects.
SelectedUsers(full_rebuild) ==
    IF full_rebuild THEN users
    ELSE users \cap ({b.user : b \in {x \in behaviors : x.day >= today - RecentDays}}
                       \cup {u \in users : RecsOf(Unexpired(recs, today), u) = {}})

Orders(S) ==
    {q \in [1..Cardinality(S) -> S] : \A i, j \in 1..Cardinality(S) : q[i] = q[j] => i = j}

\* load_existing_models / train_models: the collaborative engine after it,
\* for a new engine object.
TrainedCf(training, fitted) ==
    CASE training = "skip" -> Untrained
      [] training = "load" /\ savedModel.is_trained -> savedModel
      [] OTHER -> CfTrain(behaviors, favorites, reviews, fitted)

\* handle: the engines are built and trained, and the run is set up.  o is
\* the options of the command line (user_id = 0: no --user-id).
StartBuild(o) ==
    /\ drv.pc \in {"idle", "done"}
    /\ \E fitted \in BOOLEAN :
         LET cf == TrainedCf(o.training, fitted)
             d0 == [DrvIdle EXCEPT !.dry_run = o.dry_run,
                                   !.max_recommendations = o.max_recommendations,
                                   !.cf = cf, !.content = (o.training # "skip")]
         IN  /\ savedModel' = IF o.training = "retrain" /\ ~o.dry_run /\ cf.is_trained
                              THEN cf ELSE savedModel
             /\ IF o.dry_run
                THEN drv' = Finished(d0, "completed")
                ELSE IF o.user_id # 0
                THEN drv' = [d0 EXCEPT !.pc = "compute", !.mode = "single",
                                       !.cur = o.user_id]
                ELSE \E order \in Orders(SelectedUsers(o.full_rebuild)) :
                        drv' = [d0 EXCEPT !.pc = "batch_begin", !.mode = "batch",
                                          !.batch_size = o.batch_size,
                                          !.queue = order]
    /\ UNCHANGED << reviews, auxVars, abVars, behaviors, favorites, recs, txn >>

\* with transaction.atomic(): the next batch of the queryset
BatchBegin ==
    /\ drv.pc = "batch_begin"
    /\ IF drv.queue = << >>
       THEN /\ drv' = Finished(drv, "completed")
            /\ UNCHANGED txn
       ELSE LET b == Take(drv.queue, drv.batch_size)
            IN  /\ drv' = [drv EXCEPT !.pc = "compute", !.batch = b,
                                      !.queue = SubSeq(drv.queue, Len(b) + 1, Len(drv.queue)),
                                      !.cur = Head(b)]
                /\ txn' = [open |-> TRUE, needs_rollback |-> FALSE,
                           recs |-> recs, assignments |-> assignments]
    /\ UNCHANGED << reviews, auxVars, abVars, behaviors, favorites, recs, savedModel >>

\* The driver after build_user_recommendations(cur) ended with outcome o.
Logged(d, o, list) ==
    IF d.cur \in Users
    THEN [d EXCEPT !.log[d.cur] = [outcome |-> o, list |-> list]]
    ELSE d

\* build_user_recommendations returned: the run goes on to the next user.
Returned(d, o, list) ==
    LET e == [Logged(d, o, list) EXCEPT !.list = << >>, !.had = FALSE]
    IN  IF e.mode = "single"
        THEN Finished(e, "completed")
        ELSE IF Len(e.batch) > 1
        THEN [e EXCEPT !.pc = "compute", !.batch = Tail(e.batch), !.cur = e.batch[2]]
        ELSE [e EXCEPT !.pc = "batch_end", !.batch = << >>, !.cur = 0]

\* build_user_recommendations raised x: handle turns it into CommandError,
\* build_all_recommendations logs it and goes on.
Raised(d, x, list) ==
    IF d.mode = "single"
    THEN Finished(Logged(d, x, list), "CommandError")
    ELSE Returned(d, x, list)

Write(r, a) ==
    IF txn.open
    THEN /\ txn' = [txn EXCEPT !.recs = r, !.assignments = a]
         /\ UNCHANGED << recs, assignments >>
    ELSE /\ recs' = r
         /\ assignments' = a
         /\ UNCHANGED txn

\* generate_hybrid_recommendations: the candidates, in id order
CandidateProviders(u) ==
    SetToSeq(Providers \ ({f[2] : f \in {x \in favorites : x[1] = u}}
                            \cup {b.provider : b \in {x \in behaviors :
                                     x.user = u /\ x.action_type = "view"
                                     /\ x.day >= today - RecentDays}}))

\* generate_hybrid_recommendations with the scores the engines answer: the
\* raw list is cut at min_score and at max_recommendations.
HybridList(weights, u, cf, content, location, max_recommendations) ==
    LET raw == generate_recommendations(weights, CandidateProviders(u), cf, content,
                                        location, max_recommendations * 2)
        kept == SelectSeq(raw.list, LAMBDA x : x.num >= MinScore * x.den)
        cut == Take(kept, max_recommendations)
    IN  [error |-> raw.error,
         list |-> [i \in 1..Len(cut) |->
                     [provider_id |-> cut[i].provider_id,
                      score |-> cut[i].num \div cut[i].den,
                      algorithm_version |-> "hybrid_v1.0"]]]

\* build_user_recommendations up to the list: the user, the weights of the
\* user's variant, cold-start detection and the list.
Compute ==
    /\ drv.pc = "compute"
    /\ IF txn.open /\ txn.needs_rollback
       THEN /\ drv' = Raised(drv, "TransactionManagementError", << >>)
            /\ UNCHANGED << recs, assignments, txn >>
       ELSE IF drv.cur \notin users
       THEN /\ drv' = Returned(drv, "no_user", << >>)
            /\ UNCHANGED << recs, assignments, txn >>
       ELSE LET u == drv.cur
                w == GetUserVariant(CurAssignments, expActive, today, u,
                                    "recommendation_weights")
                weights == get_recommendation_weights(w.variant)
                has_behavior == \E b \in behaviors : b.user = u
                ids == Range(CandidateProviders(u))
                user_location == get_user_location_preference(behaviors, u, today)
            IN  IF has_behavior
                THEN \E cf \in [CfScored(drv.cf, u, ids) -> ScoreChoices],
                        content \in [ContentScored(drv.content, behaviors, favorites,
                                                   reviews, u, ids) -> ScoreChoices],
                        location \in [LocationScored(behaviors, u, ids, user_location)
                                         -> ScoreChoices] :
                        LET h == HybridList(weights, u, cf, content, location,
                                            drv.max_recommendations)
                        IN  /\ Write(CurRecs, w.rows)
                            /\ drv' = IF h.error # "none"
                                      THEN Raised(drv, h.error, << >>)
                                      ELSE IF h.list = << >>
                                      THEN Returned(drv, "ok", << >>)
                                      ELSE [drv EXCEPT !.pc = "delete", !.list = h.list]
                ELSE LET s == GetUserVariant(w.rows, expActive, today, u,
                                             "cold_start_strategy")
                         list == generate_cold_start_recommendations(
                                     get_cold_start_strategy(s.variant),
                                     drv.max_recommendations)
                     IN  /\ Write(CurRecs, s.rows)
                         /\ drv' = IF list = << >>
                                   THEN Returned(drv, "ok", << >>)
                                   ELSE [drv EXCEPT !.pc = "delete", !.list = list]
    /\ UNCHANGED << reviews, auxVars, today, expActive, users, call, lastReturned, lastActive,
                    behaviors, favorites, savedModel >>

\* save_user_recommendations: UserRecommendation.objects.filter(user=user).delete()
DeleteStep ==
    /\ drv.pc = "delete"
    /\ Write(CurRecs \ RecsOf(CurRecs, drv.cur), CurAssignments)
    /\ drv' = [drv EXCEPT !.pc = "insert", !.had = (RecsOf(CurRecs, drv.cur) # {})]
    /\ UNCHANGED << reviews, auxVars, today, expActive, users, call, lastReturned, lastActive,
                    behaviors, favorites, savedModel >>

\* save_user_recommendations: bulk_create, which runs in its own atomic
\* block without a savepoint: a refusal marks an enclosing transaction for
\* rollback.
InsertStep ==
    /\ drv.pc = "insert"
    /\ IF RecUniqueViolation(CurRecs, drv.cur, drv.list)
       THEN /\ drv' = Raised(drv, "IntegrityError", drv.list)
            /\ txn' = IF txn.open THEN [txn EXCEPT !.needs_rollback = TRUE] ELSE txn
            /\ UNCHANGED << recs, assignments >>
       ELSE /\ drv' = Returned(drv, "ok", drv.list)
            /\ Write(CurRecs \cup RecordsOf(drv.cur, drv.list, today), CurAssignments)
    /\ UNCHANGED << reviews, auxVars, today, expActive, users, call, lastReturned, lastActive,
                    behaviors, favorites, savedModel >>

\* The end of the with transaction.atomic() block of a batch
BatchEnd ==
    /\ drv.pc = "batch_end"
    /\ IF txn.needs_rollback
       THEN UNCHANGED << recs, assignments >>
       ELSE /\ recs' = txn.recs
            /\ assignments' = txn.assignments
    /\ txn' = NoTxn
    /\ drv' = [drv EXCEPT !.pc = "batch_begin"]
    /\ UNCHANGED << reviews, auxVars, today, expActive, users, call, lastReturned, lastActive,
                    behaviors, favorites, savedModel >>

\* The UserBehavior rows the clients log.
BehaviorShapes ==
    {[action_type |-> "search", provider |-> 0, geo |-> FALSE],
     [action_type |-> "view", provider |-> 1, geo |-> TRUE]}

\* The users who log events and add favourites, and what they add.
Loggers == {2}

FavoriteChoices == {3}

LogBehavior(u, shape) ==
    /\ behaviors' = behaviors \cup {[user |-> u, action_type |-> shape.action_type,
                                     provider |-> shape.provider, geo |-> shape.geo,
                                     day |-> today]}
    /\ behaviors' # behaviors
    /\ UNCHANGED << reviews, auxVars, abVars, favorites, recs, txn, savedModel, drv >>

\* A handler that deletes only the records that have not expired.
InvalidateUnexpiredOnly(table, u, created) ==
    IF created THEN table \ RecsOf(Unexpired(table, today), u) ELSE table

\* invalidate_user_recommendations, the post_save handler of Favorite: the
\* UserRecommendation table it leaves.
invalidate_user_recommendations(table, u, created) ==
    IF created THEN table \ RecsOf(table, u) ELSE table

\* FavoriteToggleView.post for a provider that is no favourite yet: the
\* Favorite is created, log_favorite_behavior and
\* invalidate_user_recommendations run on post_save.
AddFavorite(u, p) ==
    /\ << u, p >> \notin favorites
    /\ ~txn.open
    /\ favorites' = favorites \cup {<< u, p >>}
    /\ behaviors' = behaviors \cup {[user |-> u, action_type |-> "favorite",
                                     provider |-> p, geo |-> FALSE, day |-> today]}
    /\ recs' = invalidate_user_recommendations(recs, u, TRUE)
    /\ UNCHANGED << reviews, auxVars, abVars, txn, savedModel, drv >>

\* FavoriteToggleView.post for a provider that is a favourite: get_or_create
\* finds the row and the view deletes it.  Favorite has no post_delete handler.
RemoveFavorite(u, p) ==
    /\ << u, p >> \in favorites
    /\ ~txn.open
    /\ favorites' = favorites \ {<< u, p >>}
    /\ UNCHANGED << reviews, auxVars, abVars, behaviors, recs, txn, savedModel, drv >>

\* invalidate_recommendations_on_review, the post_save handler of Review:
\* the UserRecommendation table it leaves.
invalidate_recommendations_on_review(table, u, created) ==
    IF created THEN table \ RecsOf(table, u) ELSE table

\* unique_together = ('user', 'provider') of Review: the insert is refused.
ReviewUniqueViolation(rows, u, p) == \E x \in rows : x.user = u /\ x.provider = p

\* The ratings and the providers the users' reviews carry.
RatingChoices == {2, 5}

ReviewedProviders == {3}

Reviewers == {2}

\* ReviewCreateView: serializer.save(user, provider_id) inserts the row; the
\* serializer has no uniqueness validator (user is read-only, provider is
\* no field), so a second review of the pair ends in IntegrityError.
SubmitReview(u, p, rating) ==
    /\ ~txn.open
    /\ IF ReviewUniqueViolation(reviews, u, p)
       THEN /\ reply' = [status |-> 500, detail |-> "IntegrityError",
                         request |-> [user |-> u, provider |-> p, rating |-> rating]]
            /\ UNCHANGED << reviews, recs >>
       ELSE /\ reviews' = reviews \cup {[user |-> u, provider |-> p, rating |-> rating]}
            /\ recs' = invalidate_recommendations_on_review(recs, u, TRUE)
            /\ reply' = [status |-> 201, detail |-> "created",
                         request |-> [user |-> u, provider |-> p, rating |-> rating]]
    /\ UNCHANGED << engine, cacheVars, probe, abVars, behaviors, favorites, txn,
                    savedModel, drv >>

\* ReviewAdmin's change form saves an existing Review with another rating:
\* post_save runs with created = False.
ChangeReview(u, p, rating) ==
    /\ ~txn.open
    /\ \E x \in reviews :
         /\ x.user = u /\ x.provider = p /\ x.rating # rating
         /\ reviews' = (reviews \ {x}) \cup {[x EXCEPT !.rating = rating]}
    /\ recs' = invalidate_recommendations_on_review(recs, u, FALSE)
    /\ UNCHANGED << auxVars, abVars, behaviors, favorites, txn, savedModel, drv >>

\* cleanup_recommendations --behavior-only --behavior-retention-days=days
OldBehavior(rows, day, days) == {b \in rows : b.day < day - days}

RetentionDays == {0}

cleanup_old_behavior(days) ==
    /\ ~txn.open
    /\ OldBehavior(behaviors, today, days) # {}
    /\ behaviors' = behaviors \ OldBehavior(behaviors, today, days)
    /\ UNCHANGED << reviews, auxVars, abVars, favorites, recs, txn, savedModel, drv >>

\* ------------------------------------------------- the engines, called
\* The calls below hand an engine its arguments and keep what it returns;
\* they touch no table.  One call is observed in a run.
NoProbe == [op |-> "none"]

\* The most providers a catalog has that pass get_popular_providers.
MaxPopular == 13

MaxRecommendationChoices == {1, 2, 20}

\* generate_cold_start_recommendations over a catalog in which the strategy
\* finds the n providers 1..n, best first (category_based: at most two of
\* each of five categories).
CallColdStart(strategy, max_recommendations, n) ==
    /\ probe = NoProbe
    /\ strategy = "category_based" => n <= 10
    /\ probe' = [op |-> "cold_start", strategy |-> strategy,
                 max_recommendations |-> max_recommendations,
                 list |-> ColdStartList(Take([i \in 1..n |-> i], max_recommendations),
                                        strategy)]
    /\ UNCHANGED << engine, abVars, buildVars, reviews, reply, cacheVars >>

\* The weights of a HybridRecommendationEngine built without weights, in
\* hundredths.
DefaultWeights == [collaborative |-> 50, content |-> 30, location |-> 20]

\* The mappings from some providers of S to scores of V.
PartialScores(S, V) == UNION {[D -> V] : D \in SUBSET S}

\* What the three engines answer in the calls observed.
CfAnswers == PartialScores({1, 2}, ScoreChoices)

ContentAnswers == PartialScores({1, 2}, ScoreChoices)

LocationAnswers == PartialScores({2, 3}, {90})

CandidateOrders == Orders(Providers)

TopKChoices == {2, 3}

\* HybridRecommendationEngine.generate_recommendations from the combination
\* on: the candidates in the order given and what the three engines answered.
CallFusion(candidate_providers, cf_scores, content_scores, location_scores, top_k) ==
    /\ probe = NoProbe
    /\ probe' = [op |-> "fusion", candidate_providers |-> candidate_providers,
                 collaborative |-> cf_scores, content |-> content_scores,
                 location |-> location_scores, top_k |-> top_k,
                 out |-> generate_recommendations(DefaultWeights, candidate_providers,
                                                  cf_scores, content_scores,
                                                  location_scores, top_k)]
    /\ UNCHANGED << engine, abVars, buildVars, reviews, reply, cacheVars >>

\* The UserBehavior rows of user 2 in the calls of the location engine, which
\* are made on day 0: a search with coordinates made before the last
\* LocationDays days, one made on day 0, and one without coordinates.
LocationEvents ==
    {[user |-> 2, action_type |-> "search", provider |-> 0, geo |-> TRUE,
      day |-> 0 - LocationDays - 1],
     [user |-> 2, action_type |-> "search", provider |-> 0, geo |-> TRUE, day |-> 0],
     [user |-> 2, action_type |-> "search", provider |-> 0, geo |-> FALSE, day |-> 0]}

\* LocationBasedEngine.predict_scores(u, provider_ids, user_location) over
\* the UserBehavior rows behs; user_location says whether a location is given.
CallLocation(behs, u, provider_ids, user_location) ==
    /\ probe = NoProbe
    /\ probe' = [op |-> "location", behaviors |-> behs, user |-> u,
                 provider_ids |-> provider_ids, user_location |-> user_location,
                 out |-> LocationScored(behs, u, provider_ids, user_location)]
    /\ UNCHANGED << engine, abVars, buildVars, reviews, reply, cacheVars >>

\* The collaborative engines of the calls: a new one, and one whose train
\* wrote the index maps and did or did not fit.
CfModels ==
    {Untrained} \cup [is_trained : BOOLEAN, user_index_map : SUBSET Users,
                       provider_index_map : (SUBSET Providers) \ {{}}]

\* CollaborativeFilteringEngine.predict_scores(u, provider_ids)
CallCf(cf, u, provider_ids, dot) ==
    /\ probe = NoProbe
    /\ probe' = [op |-> "cf", cf |-> cf, user |-> u, provider_ids |-> provider_ids,
                 out |-> predict_scores(cf, u, provider_ids, dot)]
    /\ UNCHANGED << engine, abVars, buildVars, reviews, reply, cacheVars >>

\* ------------------------------------------------- RecommendationCache
\* A cache key is the sequence of the pieces of its text: words, the digits
\* of an id, and the separators.
USER_RECOMMENDATIONS_PREFIX == "user_recs"

PROVIDER_FEATURES_PREFIX == "provider_features"

USER_BEHAVIOR_PREFIX == "user_behavior"

ALGORITHM_MODEL_PREFIX == "algo_model"

COLD_START_RECS_PREFIX == "cold_start"

POPULAR_PROVIDERS_PREFIX == "popular_providers"

\* A location text of 200 characters.
LongText == "<200 characters>"

\* len() of a piece; every digit and separator is one character.
TextLen(t) ==
    CASE t = "user_recs" -> 9
      [] t = "provider_features" -> 17
      [] t = "user_behavior" -> 13
      [] t = "algo_model" -> 10
      [] t = "cold_start" -> 10
      [] t = "popular_providers" -> 17
      [] t = "algo=" -> 5
      [] t = "loc=" -> 4
      [] t = "version=" -> 8
      [] t = "category=" -> 9
      [] t = "location=" -> 9
      [] t = "None" -> 4
      [] t = "hybrid_v1.0" -> 11
      [] t = "collaborative" -> 13
      [] t = "global" -> 6
      [] t = "week" -> 4
      [] t = LongText -> 200
      [] OTHER -> 1

RECURSIVE KeyLen(_)
KeyLen(q) == IF q = << >> THEN 0 ELSE TextLen(Head(q)) + KeyLen(Tail(q))

RECURSIVE Text(_)
Text(q) == IF q = << >> THEN "" ELSE Head(q) \o Text(Tail(q))

DigitText(d) == << "0", "1", "2", "3", "4", "5", "6", "7", "8", "9" >>[d + 1]

\* str(n) of an id
RECURSIVE Digits(_)
Digits(n) == IF n < 10 THEN << DigitText(n) >> ELSE Digits(n \div 10) \o << DigitText(n % 10) >>

\* '&'.join(f"{k}={v}") of the sorted kwargs, given as << name, value >> pairs
\* in sorted order.
RECURSIVE ParamStr(_)
ParamStr(kwargs) ==
    IF kwargs = << >> THEN << >>
    ELSE << Head(kwargs)[1], Head(kwargs)[2] >>
            \o (IF Len(kwargs) > 1 THEN << "&" >> ELSE << >>)
            \o ParamStr(Tail(kwargs))

\* get_cache_key(prefix, identifier, **kwargs): the parts joined by ':', and
\* prefix:md5 of it when it is longer than 200 characters.
get_cache_key(prefix, identifier, kwargs) ==
    LET key_string == << prefix, ":" >> \o identifier
                         \o (IF kwargs = << >> THEN << >> ELSE << ":" >> \o ParamStr(kwargs))
    IN  IF KeyLen(key_string) > 200
        THEN << prefix, ":", "md5(" \o Text(key_string) \o ")" >>
        ELSE key_string

UserRecsKey(user_id, algorithm_version, location) ==
    get_cache_key(USER_RECOMMENDATIONS_PREFIX, Digits(user_id),
                  << << "algo=", algorithm_version >>, << "loc=", location >> >>)

UserBehaviorKey(user_id) == get_cache_key(USER_BEHAVIOR_PREFIX, Digits(user_id), << >>)

ProviderFeaturesKey(provider_id) ==
    get_cache_key(PROVIDER_FEATURES_PREFIX, Digits(provider_id), << >>)

AlgorithmModelKey(algorithm_name, version) ==
    get_cache_key(ALGORITHM_MODEL_PREFIX, << algorithm_name >>, << << "version=", version >> >>)

ColdStartKey(category, location) ==
    get_cache_key(COLD_START_RECS_PREFIX, << "global" >>,
                  << << "category=", category >>, << "location=", location >> >>)

PopularProvidersKey(category, location, time_period) ==
    get_cache_key(POPULAR_PROVIDERS_PREFIX, << time_period >>,
                  << << "category=", category >>, << "location=", location >> >>)

\* The users, algorithm versions and locations of the cache calls; None is
\* formatted as "None".
CacheUsers == {1, 12}

AlgorithmVersions == {"hybrid_v1.0"}

Locations == {"None", LongText}

\* get_user_recommendations: "miss" when cache.get finds nothing.
get_user_recommendations(keys, user_id, algorithm_version, location) ==
    IF UserRecsKey(user_id, algorithm_version, location) \in keys THEN "hit" ELSE "miss"

get_user_behavior_summary(keys, user_id) ==
    IF UserBehaviorKey(user_id) \in keys THEN "hit" ELSE "miss"

\* cache.set of a key; the call is not the one observed.
CacheSet(key) ==
    /\ cache' = cache \cup {key}
    /\ probe' = NoProbe
    /\ UNCHANGED << engine, abVars, buildVars, reviews, reply, hasDeletePattern >>

cache_user_recommendations(user_id, algorithm_version, location) ==
    CacheSet(UserRecsKey(user_id, algorithm_version, location))

cache_user_behavior_summary(user_id) == CacheSet(UserBehaviorKey(user_id))

cache_provider_features(provider_id) == CacheSet(ProviderFeaturesKey(provider_id))

cache_algorithm_model(algorithm_name, version) ==
    CacheSet(AlgorithmModelKey(algorithm_name, version))

cache_cold_start_recommendations(category, location) ==
    CacheSet(ColdStartKey(category, location))

cache_popular_providers(category, location, time_period) ==
    CacheSet(PopularProvidersKey(category, location, time_period))

\* A key matches a pattern that ends in '*' when the text before the '*'
\* begins the key.
Matches(pattern, key) ==
    /\ Len(pattern) <= Len(key)
    /\ \A i \in 1..Len(pattern) : pattern[i] = key[i]

\* cache.delete_pattern(pattern + '*')
delete_pattern(keys, pattern) == {k \in keys : ~Matches(pattern, k)}

\* cache.delete_many(base_keys)
delete_many(keys, base_keys) == keys \ base_keys

\* invalidate_user_cache: the keys it leaves, on a backend with
\* delete_pattern and on one without.
InvalidatedUserCache(keys, user_id, pattern_backend) ==
    IF pattern_backend
    THEN delete_pattern(
             delete_pattern(keys, << USER_RECOMMENDATIONS_PREFIX, ":" >>
                                      \o Digits(user_id) \o << ":" >>),
             << USER_BEHAVIOR_PREFIX, ":" >> \o Digits(user_id))
    ELSE delete_many(keys, {<< USER_RECOMMENDATIONS_PREFIX, ":" >> \o Digits(user_id),
                            << USER_BEHAVIOR_PREFIX, ":" >> \o Digits(user_id)})

invalidate_user_cache(user_id) ==
    /\ cache' = InvalidatedUserCache(cache, user_id, hasDeletePattern)
    /\ probe' = [op |-> "invalidate_user_cache", user_id |-> user_id]
    /\ UNCHANGED << engine, abVars, buildVars, reviews, reply, hasDeletePattern >>

\* ------------------------------------------------------ backend failures
\* The try/except of every RecommendationCache method: the value is returned
\* when no backend call raised, the fallback when one did; the exception is
\* logged and never re-raised.
Unhandled(op, method, raised, value, fallback) ==
    [op |-> op, method |-> method, raised |-> raised,
     result |-> IF raised THEN "exception" ELSE value, propagated |-> raised]

Handled(op, method, raised, value, fallback) ==
    [op |-> op, method |-> method, raised |-> raised,
     result |-> IF raised THEN fallback ELSE value, propagated |-> FALSE]

\* The six cache_* methods with the keys they set.
WriteCalls ==
    {<< "cache_user_recommendations", UserRecsKey(u, a, l) >> :
        u \in CacheUsers, a \in AlgorithmVersions, l \in Locations}
        \cup {<< "cache_user_behavior_summary", UserBehaviorKey(u) >> : u \in CacheUsers}
        \cup {<< "cache_provider_features", ProviderFeaturesKey(1) >>,
               << "cache_algorithm_model", AlgorithmModelKey("collaborative", "None") >>,
               << "cache_cold_start_recommendations", ColdStartKey("None", "None") >>,
               << "cache_popular_providers", PopularProvidersKey("None", "None", "week") >>}

\* The six get_* methods with the keys they read.
ReadCalls ==
    {<< "get_user_recommendations", UserRecsKey(u, a, l) >> :
        u \in CacheUsers, a \in AlgorithmVersions, l \in Locations}
        \cup {<< "get_user_behavior_summary", UserBehaviorKey(u) >> : u \in CacheUsers}
        \cup {<< "get_provider_features", ProviderFeaturesKey(1) >>,
               << "get_algorithm_model", AlgorithmModelKey("collaborative", "None") >>,
               << "get_cold_start_recommendations", ColdStartKey("None", "None") >>,
               << "get_popular_providers", PopularProvidersKey("None", "None", "week") >>}

\* A cache_* method whose cache.set raises or succeeds.
TryWrite(method, key, raises) ==
    /\ cache' = IF raises THEN cache ELSE cache \cup {key}
    /\ probe' = Handled("write", method, raises, "True", "False")
    /\ UNCHANGED << engine, abVars, buildVars, reviews, reply, hasDeletePattern >>

\* A get_* method whose cache.get raises or succeeds.
TryRead(method, key, raises) ==
    /\ probe' = Handled("read", method, raises,
                        IF key \in cache THEN "data" ELSE "None", "None")
    /\ UNCHANGED << engine, abVars, buildVars, reviews, reply, cacheVars >>

\* The keys left by the first n iterations of invalidate_user_cache's loop.
RECURSIVE UserCacheAfter(_, _, _, _)
UserCacheAfter(keys, user_id, pattern_backend, n) ==
    IF n = 0 THEN keys
    ELSE LET prev == UserCacheAfter(keys, user_id, pattern_backend, n - 1)
             patterns_to_clear ==
                 << << USER_RECOMMENDATIONS_PREFIX, ":" >> \o Digits(user_id) \o << ":" >>,
                    << USER_BEHAVIOR_PREFIX, ":" >> \o Digits(user_id) >>
         IN  IF pattern_backend
             THEN delete_pattern(prev, patterns_to_clear[n])
             ELSE delete_many(prev,
                      {<< USER_RECOMMENDATIONS_PREFIX, ":" >> \o Digits(user_id),
                       << USER_BEHAVIOR_PREFIX, ":" >> \o Digits(user_id)})

\* invalidate_user_cache whose failing-th backend call raises (0: none does);
\* the calls before it have taken effect.
TryInvalidateUser(user_id, failing) ==
    /\ cache' = UserCacheAfter(cache, user_id, hasDeletePattern,
                               IF failing = 0 THEN 2 ELSE failing - 1)
    /\ probe' = Handled("invalidate", "invalidate_user_cache", failing # 0,
                        "True", "False")
    /\ UNCHANGED << engine, abVars, buildVars, reviews, reply, hasDeletePattern >>

\* The keys left by the first n backend calls of invalidate_provider_cache:
\* cache.delete of the feature key, then the two pattern deletions.
RECURSIVE ProviderCacheAfter(_, _, _)
ProviderCacheAfter(keys, provider_id, n) ==
    IF n = 0 THEN keys
    ELSE LET prev == ProviderCacheAfter(keys, provider_id, n - 1)
         IN  CASE n = 1 -> prev \ {<< PROVIDER_FEATURES_PREFIX, ":" >> \o Digits(provider_id)}
               [] n = 2 -> delete_pattern(prev, << POPULAR_PROVIDERS_PREFIX, ":" >>)
               [] OTHER -> delete_pattern(prev, << COLD_START_RECS_PREFIX, ":" >>)

\* invalidate_provider_cache whose failing-th backend call raises; a backend
\* without delete_pattern gets the one cache.delete call.
TryInvalidateProvider(provider_id, failing) ==
    LET calls == IF hasDeletePattern THEN 3 ELSE 1
    IN  /\ failing <= calls
        /\ cache' = ProviderCacheAfter(cache, provider_id,
                                       IF failing = 0 THEN calls ELSE failing - 1)
        /\ probe' = Handled("invalidate", "invalidate_provider_cache", failing # 0,
                            "True", "False")
        /\ UNCHANGED << engine, abVars, buildVars, reviews, reply, hasDeletePattern >>

\* ------------------------------------------ configured experiments
\* A 'start_date' or 'end_date' entry of an experiment: a '%Y-%m-%d' text
\* (as its day number), an entry that is absent, or a text strptime rejects.
StartDateTexts ==
    {[kind |-> "date", day |-> StartDate], [kind |-> "missing", day |-> 0],
     [kind |-> "unparsable", day |-> 0]}

EndDateTexts ==
    {[kind |-> "date", day |-> EndDate], [kind |-> "missing", day |-> 0],
     [kind |-> "unparsable", day |-> 0]}

\* The 'variants' of the default experiment and a dictionary whose weights
\* sum to 1.2.
VariantChoices ==
    {Variants("recommendation_weights"),
     << [name |-> "balanced", weight |-> 600],
        [name |-> "collaborative_heavy", weight |-> 600] >>}

\* settings.AB_TEST_EXPERIMENTS, when set: one experiment.
ExperimentConfigs ==
    [active : BOOLEAN, start_date : StartDateTexts, end_date : EndDateTexts,
     variants : VariantChoices]

\* datetime.strptime(experiment[key], '%Y-%m-%d'): the exception it ends in.
ParseDate(d) ==
    IF d.kind = "missing" THEN "KeyError"
    ELSE IF d.kind = "unparsable" THEN "ValueError"
    ELSE "none"

\* is_experiment_active over the experiments of the settings.
is_experiment_active(experiments, experiment_name, day) ==
    IF experiment_name \notin DOMAIN experiments
    THEN [raised |-> "none", active |-> FALSE]
    ELSE LET experiment == experiments[experiment_name]
         IN  IF ~experiment.active THEN [raised |-> "none", active |-> FALSE]
             ELSE IF ParseDate(experiment.start_date) # "none"
             THEN [raised |-> ParseDate(experiment.start_date), active |-> FALSE]
             ELSE IF ParseDate(experiment.end_date) # "none"
             THEN [raised |-> ParseDate(experiment.end_date), active |-> FALSE]
             ELSE [raised |-> "none",
                   active |-> /\ experiment.start_date.day <= day
                              /\ day <= experiment.end_date.day]

\* assign_user_to_variant over the experiments of the settings: the
\* exception it ends in, or what it returns at once or inserts and returns.
assign_user_to_variant(experiments, rows, u, experiment_name, day) ==
    IF experiment_name \notin DOMAIN experiments
    THEN [raised |-> "none", kind |-> "return", value |-> "control"]
    ELSE LET is_active == is_experiment_active(experiments, experiment_name, day)
         IN  IF is_active.raised # "none"
             THEN [raised |-> is_active.raised, kind |-> "raise", value |-> "none"]
             ELSE IF ~is_active.active
             THEN [raised |-> "none", kind |-> "return", value |-> "control"]
             ELSE IF Existing(rows, u, experiment_name) # {}
             THEN [raised |-> "none", kind |-> "return",
                   value |-> FirstVariant(rows, u, experiment_name)]
             ELSE [raised |-> "none", kind |-> "create",
                   value |-> WalkVariants(experiments[experiment_name].variants, 1, 0,
                                          HashBucket(u, experiment_name))]

\* get_user_variant over the experiments of the settings.
get_user_variant(experiments, rows, u, experiment_name, day) ==
    IF Existing(rows, u, experiment_name) # {}
    THEN [raised |-> "none", kind |-> "return",
          value |-> FirstVariant(rows, u, experiment_name)]
    ELSE assign_user_to_variant(experiments, rows, u, experiment_name, day)

\* One call of assign_user_to_variant or get_user_variant under a
\* configuration, with the row it inserts.
CallConfigured(op, config, u, experiment_name) ==
    LET experiments == [n \in {"recommendation_weights"} |-> config]
        outcome == IF op = "assign_user_to_variant"
                   THEN assign_user_to_variant(experiments, assignments, u,
                                               experiment_name, today)
                   ELSE get_user_variant(experiments, assignments, u,
                                         experiment_name, today)
    IN  /\ assignments' =
              IF outcome.kind = "create"
              THEN assignments \cup {NewRow(u, experiment_name, outcome.value, today)}
              ELSE assignments
        /\ probe' = [op |-> op, user |-> u, experiment_name |-> experiment_name,
                     config |-> config,
                     assigned |-> Existing(assignments, u, experiment_name) # {},
                     outcome |-> outcome]
        /\ UNCHANGED << today, expActive, users, call, lastReturned, lastActive,
                        buildVars, reviews, reply, cacheVars, engine >>

\* ------------------------------------------------------------ distances
\* Coordinates in whole degrees, on a grid where the Haversine terms are
\* exact: cos(lat) in halves and sin^2(d/2) in quarters.
Latitudes == {-60, 0, 60}

Longitudes == {-120, -60, 0, 60, 120, 180}

\* math.cos(lat), in halves.
CosHalves(lat) == IF lat = 0 THEN 2 ELSE 1

\* math.sin(d/2)**2, in quarters, for a difference d of grid coordinates.
SinSquaredHalfQuarters(d) ==
    LET m == d % 360
    IN  CASE m = 0 -> 0
          [] m \in {60, 300} -> 1
          [] m \in {120, 240} -> 3
          [] OTHER -> 4

\* 6371 * 2 * math.asin(math.sqrt(a)) in whole kilometres, for a in
\* sixteenths (the first entry is a = 0).
GreatCircleKm ==
    << 0, 3220, 4605, 5706, 6672, 7559, 8398, 9209, 10008, 10806, 11617,
       12457, 13343, 14309, 15411, 16795, 20015 >>

\* float('inf')
Infinity == [finite |-> FALSE, km |-> 0]

\* LocationBasedEngine.calculate_distance: all([...]) is false as soon as
\* one coordinate is 0.
calculate_distance(lat1, lng1, lat2, lng2) ==
    IF lat1 = 0 \/ lng1 = 0 \/ lat2 = 0 \/ lng2 = 0
    THEN Infinity
    ELSE LET dlat == lat2 - lat1
             dlng == lng2 - lng1
             a == 4 * SinSquaredHalfQuarters(dlat)
                    + CosHalves(lat1) * CosHalves(lat2) * SinSquaredHalfQuarters(dlng)
         IN  [finite |-> TRUE, km |-> GreatCircleKm[a + 1]]

\* One call of calculate_distance.
CallDistance(lat1, lng1, lat2, lng2) ==
    /\ probe' = [op |-> "calculate_distance", lat1 |-> lat1, lng1 |-> lng1,
                 lat2 |-> lat2, lng2 |-> lng2,
                 result |-> calculate_distance(lat1, lng1, lat2, lng2)]
    /\ UNCHANGED << engine, abVars, buildVars, reviews, reply, cacheVars >>

\* --------------------------------------- the cleanup_recommendations command
\* The options of the command; user_id 0 stands for no --user-id.
CleanupOptions ==
    [dry_run : BOOLEAN, behavior_retention_days : RetentionDays,
     abtest_cleanup_days : {0}, user_id : {0, 2}, recommendations_only : BOOLEAN,
     behavior_only : BOOLEAN, abtest_only : BOOLEAN]

\* The rows of a queryset after `if user_id: queryset.filter(user_id=user_id)`.
ForUser(rows, user_id) == IF user_id = 0 THEN rows ELSE {r \in rows : r.user = user_id}

\* cleanup_expired_recommendations: the table it leaves.
cleanup_expired_recommendations(table, day, user_id, dry_run) ==
    IF dry_run THEN table
    ELSE table \ ForUser({r \in table : r.expires_at < day}, user_id)

\* Command.cleanup_old_behavior: the table it leaves.
CleanedBehavior(rows, day, retention_days, user_id, dry_run) ==
    IF dry_run THEN rows
    ELSE rows \ ForUser(OldBehavior(rows, day, retention_days), user_id)

\* cleanup_abtest_assignments: ABTestManager.cleanup_ended_experiments is
\* called whatever self.dry_run is.
cleanup_abtest_assignments(rows, day, cleanup_days, dry_run) ==
    rows \ EndedAssignments(rows, day, cleanup_days)

\* Command.handle of cleanup_recommendations.
CleanupCommand(options) ==
    LET expired == ~options.behavior_only /\ ~options.abtest_only
        old == ~options.recommendations_only /\ ~options.abtest_only
        ended == ~options.recommendations_only /\ ~options.behavior_only
        kept == IF ended
                THEN cleanup_abtest_assignments(assignments, today,
                         options.abtest_cleanup_days, options.dry_run)
                ELSE assignments
    IN  /\ ~txn.open
        /\ recs' = IF expired
                   THEN cleanup_expired_recommendations(recs, today, options.user_id,
                                                        options.dry_run)
                   ELSE recs
        /\ behaviors' = IF old
                        THEN CleanedBehavior(behaviors, today,
                                 options.behavior_retention_days, options.user_id,
                                 options.dry_run)
                        ELSE behaviors
        /\ assignments' = kept
        /\ lastActive' = (lastActive /\ Observed \notin Keys(assignments \ kept))
        /\ UNCHANGED << today, expActive, users, call, lastReturned, favorites, txn,
                        savedModel, drv, reviews, auxVars >>

\* ----------------------------------- a collaborative engine and its callers
\* A factor matrix is the set of ids whose rows it holds, in the order of the
\* ids; an index map is the set of its keys, the key of rank i mapped to row
\* i.  None is a matrix without rows.
NewEngine ==
    [user_factors |-> {}, provider_factors |-> {}, user_index_map |-> {},
     provider_index_map |-> {}, is_trained |-> FALSE,
     pc |-> "idle", interaction_matrix |-> {}]

\* The attributes save_model pickles and load_model restores.
ModelData(e) ==
    [user_factors |-> e.user_factors, provider_factors |-> e.provider_factors,
     user_index_map |-> e.user_index_map,
     provider_index_map |-> e.provider_index_map, is_trained |-> e.is_trained]

\* The (user, provider) pairs with a Favorite, Review, view or contact at
\* the time train() is called.
InteractionChoices == {{}, {<< 1, 1 >>}, {<< 1, 1 >>, << 2, 2 >>}}

\* A build_interaction_matrix that writes the index maps before it looks
\* whether there is any interaction.
BuildMatrixMapsFirst(e, interactions) ==
    [e EXCEPT !.user_index_map = {x[1] : x \in interactions},
              !.provider_index_map = {x[2] : x \in interactions},
              !.pc = IF interactions = {} THEN "idle" ELSE "fit",
              !.interaction_matrix = interactions]

\* build_interaction_matrix: None, and nothing written, without
\* interactions; else both index maps are replaced and the matrix returned.
build_interaction_matrix(e, interactions) ==
    IF interactions = {} THEN e
    ELSE [e EXCEPT !.user_index_map = {x[1] : x \in interactions},
                   !.provider_index_map = {x[2] : x \in interactions},
                   !.pc = "fit",
                   !.interaction_matrix = interactions]

\* train(), up to the return of build_interaction_matrix.
TrainStart(interactions) ==
    /\ engine.pc = "idle"
    /\ engine' = build_interaction_matrix(engine, interactions)
    /\ probe' = [op |-> "train", interactions |-> interactions,
                 returned |-> IF interactions = {} THEN "False" ELSE "running"]
    /\ UNCHANGED << abVars, buildVars, reviews, reply, cacheVars >>

\* train(): self.svd.fit_transform(interaction_matrix) and the assignment of
\* user_factors, or the exception of the fit, caught and answered by False.
TrainFit(fitted) ==
    /\ engine.pc = "fit"
    /\ engine' = IF fitted
                 THEN [engine EXCEPT !.user_factors = {x[1] : x \in engine.interaction_matrix},
                                     !.pc = "components"]
                 ELSE [engine EXCEPT !.pc = "idle", !.interaction_matrix = {}]
    /\ probe' = IF fitted THEN probe
                ELSE [op |-> "train", interactions |-> engine.interaction_matrix,
                      returned |-> "False"]
    /\ UNCHANGED << abVars, buildVars, reviews, reply, cacheVars >>

\* train(): provider_factors and is_trained are assigned, True is returned.
TrainFinish ==
    /\ engine.pc = "components"
    /\ engine' = [engine EXCEPT !.provider_factors = {x[2] : x \in engine.interaction_matrix},
                                !.is_trained = TRUE,
                                !.pc = "idle", !.interaction_matrix = {}]
    /\ probe' = [op |-> "train", interactions |-> engine.interaction_matrix,
                 returned |-> "True"]
    /\ UNCHANGED << abVars, buildVars, reviews, reply, cacheVars >>

\* save_model by the thread that trains: nothing is written for an engine
\* that is not trained.
SaveModel ==
    /\ engine.pc = "idle"
    /\ engine.is_trained
    /\ savedModel' = ModelData(engine)
    /\ UNCHANGED << abVars, behaviors, favorites, recs, txn, drv, reviews, auxVars >>

\* load_model by the thread that trains: False without a file.
LoadModel ==
    /\ engine.pc = "idle"
    /\ savedModel.is_trained
    /\ engine' = [engine EXCEPT !.user_factors = savedModel.user_factors,
                                !.provider_factors = savedModel.provider_factors,
                                !.user_index_map = savedModel.user_index_map,
                                !.provider_index_map = savedModel.provider_index_map,
                                !.is_trained = savedModel.is_trained]
    /\ probe' = [op |-> "load_model", returned |-> "True"]
    /\ UNCHANGED << abVars, buildVars, reviews, reply, cacheVars >>

\* The row an index map gives for a key.
Row(index_map, id) == Cardinality({x \in index_map : x < id})

\* predict_scores on the attributes as they are: {} for an engine that is
\* not trained or a user that is not in the map, IndexError when a row is
\* not in its factor matrix.
PredictOutcome(e, user_id, provider_ids) ==
    IF ~e.is_trained \/ user_id \notin e.user_index_map THEN "empty"
    ELSE IF Row(e.user_index_map, user_id) >= Cardinality(e.user_factors)
    THEN "IndexError"
    ELSE IF \E p \in provider_ids \cap e.provider_index_map :
                Row(e.provider_index_map, p) >= Cardinality(e.provider_factors)
    THEN "IndexError"
    ELSE "scores"

\* predict_scores called by a reader, whatever the training thread is at.
CallPredict(user_id, provider_ids) ==
    /\ probe' = [op |-> "predict_scores", user_id |-> user_id,
                 provider_ids |-> provider_ids, seen |-> ModelData(engine),
                 training |-> engine.pc # "idle",
                 outcome |-> PredictOutcome(engine, user_id, provider_ids)]
    /\ UNCHANGED << engine, abVars, buildVars, reviews, reply, cacheVars >>

\* The users whose md5 bucket for 'recommendation_weights' is 501, 750, 751
\* and 500.
BucketUsers == {26, 158, 963, 1562}

\* The default 'recommendation_weights' experiment of load_experiment_configs.
DefaultConfig ==
    [active |-> TRUE, start_date |-> [kind |-> "date", day |-> StartDate],
     end_date |-> [kind |-> "date", day |-> EndDate],
     variants |-> Variants("recommendation_weights")]

NoReply ==
    [status |-> 0, detail |-> "none",
     request |-> [user |-> 0, provider |-> 0, rating |-> 0]]

StoreInit ==
    /\ behaviors = {}
    /\ favorites = {}
    /\ recs = {}
    /\ txn = NoTxn
    /\ savedModel = Untrained
    /\ drv = DrvIdle
    /\ reviews = {}
    /\ reply = NoReply
    /\ cache = {}
    /\ hasDeletePattern = FALSE
    /\ probe = NoProbe
    /\ engine = NewEngine

\* ------------------------------------------------------ specifications
\* The A/B manager from a fresh deployment on day 0, no user registered.
ABInit ==
    /\ today = 0
    /\ expActive = [e \in ExperimentNames |-> TRUE]
    /\ users = {}
    /\ assignments = {}
    /\ call = [p \in Callers |-> Idle]
    /\ lastReturned = "none"
    /\ lastActive = FALSE
    /\ StoreInit

ABNext ==
    \/ \E p \in Callers, u \in users, e \in CallNames : CallAssign(p, u, e)
    \/ \E p \in Callers, u \in users, e \in CallNames : CallGet(p, u, e)
    \/ \E p \in Callers : AssignStep(p)
    \/ \E p \in Callers : CreateStep(p)
    \/ \E p \in Callers, u \in users, e \in CallNames :
          \E v \in VariantNames(e) \cup {"control"} : CallForce(p, u, e, v)
    \/ \E p \in Callers : ForceCreate(p)
    \/ \E p \in Callers, u \in Members : Register(p, u)
    \/ \E p \in Callers : HookStep(p)
    \/ \E p \in Callers, u \in users, e \in CallNames \cup {"none"} :
          CallEndpoint(p, u, e)
    \/ \E p \in Callers : Return(p)
    \/ \E d \in CleanupDays : CleanupExpiredAssignments(d)
    \/ \E d \in CleanupDays : CleanupEndedExperiments(d)
    \/ Tick
    \/ \E e \in Redeployed : SetActive(e)

SpecAB == ABInit /\ [][ABNext]_vars

\* The build command and the store around it, observed within one day: any
\* day of the clock, all users registered, the tables empty.
BuildInit ==
    /\ today \in 0..MaxDay
    /\ expActive = [e \in ExperimentNames |-> TRUE]
    /\ users = Users
    /\ assignments = {}
    /\ call = [p \in Callers |-> Idle]
    /\ lastReturned = "none"
    /\ lastActive = FALSE
    /\ StoreInit

BuildNext ==
    \/ \E o \in BuildOptions : StartBuild(o)
    \/ BatchBegin
    \/ Compute
    \/ DeleteStep
    \/ InsertStep
    \/ BatchEnd
    \/ \E u \in Loggers, shape \in BehaviorShapes : LogBehavior(u, shape)
    \/ \E u \in Loggers, p \in FavoriteChoices : AddFavorite(u, p)


SpecBuild == BuildInit /\ [][BuildNext]_vars

\* The store with its endpoints, the admin, the cleanup and the build command
\* run with --user-id for the user who acts, from day 0.
StoreBuildOptions ==
    [dry_run : {FALSE}, training : {"retrain", "load"}, user_id : Loggers,
     full_rebuild : {FALSE}, batch_size : {100}, max_recommendations : {2}]

StoreInit0 ==
    /\ today = 0
    /\ expActive = [e \in ExperimentNames |-> TRUE]
    /\ users = Users
    /\ assignments = {}
    /\ call = [p \in Callers |-> Idle]
    /\ lastReturned = "none"
    /\ lastActive = FALSE
    /\ StoreInit

StoreNext ==
    \/ \E o \in StoreBuildOptions : StartBuild(o)
    \/ Compute
    \/ DeleteStep
    \/ InsertStep
    \/ \E u \in Loggers, p \in FavoriteChoices : AddFavorite(u, p)
    \/ \E u \in Loggers, p \in FavoriteChoices : RemoveFavorite(u, p)
    \/ \E u \in Reviewers, p \in ReviewedProviders, r \in RatingChoices :
          SubmitReview(u, p, r)
    \/ \E u \in Reviewers, p \in ReviewedProviders, r \in RatingChoices :
          ChangeReview(u, p, r)
    \/ \E d \in RetentionDays : cleanup_old_behavior(d)
    \/ Tick

SpecStore == StoreInit0 /\ [][StoreNext]_vars

\* The engines called with arguments drawn from small sets.
EngineNext ==
    \/ \E strategy \in VariantNames("cold_start_strategy"),
          k \in MaxRecommendationChoices, n \in 0..MaxPopular :
          CallColdStart(strategy, k, n)
    \/ \E order \in CandidateOrders, cf \in CfAnswers, content \in ContentAnswers,
          location \in LocationAnswers, k \in TopKChoices :
          CallFusion(order, cf, content, location, k)
    \/ \E behs \in SUBSET LocationEvents, u \in Users, ids \in SUBSET Providers,
          user_location \in BOOLEAN :
          CallLocation(behs, u, ids, user_location)
    \/ \E cf \in CfModels, u \in Users, ids \in SUBSET Providers,
          dot \in [Providers -> DotChoices] :
          CallCf(cf, u, ids, dot)

SpecEngine == StoreInit0 /\ [][EngineNext]_vars

\* RecommendationCache over an empty cache, on either kind of backend.
CacheInit ==
    /\ today = 0
    /\ expActive = [e \in ExperimentNames |-> TRUE]
    /\ users = Users
    /\ assignments = {}
    /\ call = [p \in Callers |-> Idle]
    /\ lastReturned = "none"
    /\ lastActive = FALSE
    /\ behaviors = {}
    /\ favorites = {}
    /\ recs = {}
    /\ txn = NoTxn
    /\ savedModel = Untrained
    /\ drv = DrvIdle
    /\ reviews = {}
    /\ reply = NoReply
    /\ cache = {}
    /\ hasDeletePattern \in BOOLEAN
    /\ probe = NoProbe
    /\ engine = NewEngine

CacheNext ==
    \/ \E u \in CacheUsers, a \in AlgorithmVersions, l \in Locations :
          cache_user_recommendations(u, a, l)
    \/ \E u \in CacheUsers : cache_user_behavior_summary(u)
    \/ \E p \in {1} : cache_provider_features(p)
    \/ cache_algorithm_model("collaborative", "None")
    \/ cache_cold_start_recommendations("None", "None")
    \/ cache_popular_providers("None", "None", "week")
    \/ \E u \in CacheUsers : invalidate_user_cache(u)

SpecCache == CacheInit /\ [][CacheNext]_vars

\* RecommendationCache on a backend whose calls may raise.
CacheFaultNext ==
    \/ \E c \in WriteCalls, raises \in BOOLEAN : TryWrite(c[1], c[2], raises)
    \/ \E c \in ReadCalls, raises \in BOOLEAN : TryRead(c[1], c[2], raises)
    \/ \E u \in CacheUsers, failing \in 0..2 : TryInvalidateUser(u, failing)
    \/ \E p \in {1}, failing \in 0..3 : TryInvalidateProvider(p, failing)

SpecCacheFault == CacheInit /\ [][CacheFaultNext]_vars

\* The A/B manager under the experiment configurations the settings can
\* hold, for registered users.
ConfigNext ==
    \/ \E op \in {"assign_user_to_variant", "get_user_variant"},
          config \in ExperimentConfigs, u \in Users, e \in CallNames :
          CallConfigured(op, config, u, e)
    \/ Tick

SpecConfig == StoreInit0 /\ [][ConfigNext]_vars

\* LocationBasedEngine.calculate_distance over the coordinate grid.
DistanceNext ==
    \E lat1 \in Latitudes, lng1 \in Longitudes, lat2 \in Latitudes, lng2 \in Longitudes :
        CallDistance(lat1, lng1, lat2, lng2)

SpecDistance == StoreInit0 /\ [][DistanceNext]_vars

\* The tables under favourites, rebuilds of one user and the days passing,
\* with the cleanup command run under every combination of its options.
CleanupNext ==
    \/ \E o \in StoreBuildOptions : StartBuild(o)
    \/ Compute
    \/ DeleteStep
    \/ InsertStep
    \/ \E u \in Loggers, p \in FavoriteChoices : AddFavorite(u, p)
    \/ \E o \in CleanupOptions : CleanupCommand(o)
    \/ Tick

SpecCleanup == StoreInit0 /\ [][CleanupNext]_vars

\* One collaborative engine: a thread that trains, saves and loads it, and
\* readers that ask it for scores at any moment.
CfNext ==
    \/ \E i \in InteractionChoices : TrainStart(i)
    \/ \E fitted \in BOOLEAN : TrainFit(fitted)
    \/ TrainFinish
    \/ SaveModel
    \/ LoadModel
    \/ \E u \in Users, ids \in {{1, 2}} : CallPredict(u, ids)

SpecCf == StoreInit0 /\ [][CfNext]_vars

\* assign_user_to_variant under the default configuration, for the users
\* at the borders of the weights.
BucketNext ==
    \/ \E u \in BucketUsers :
          CallConfigured("assign_user_to_variant", DefaultConfig, u,
                         "recommendation_weights")
    \/ Tick

SpecBuckets == StoreInit0 /\ [][BucketNext]_vars

\* A provider that get_popular_providers lists, as the favourite.
PopularFavorites == {1}

\* Favourites added and removed, events logged, the behaviour purge, the
\* days passing and the rebuilds of one user.
MarksNext ==
    \/ \E o \in StoreBuildOptions : StartBuild(o)
    \/ Compute
    \/ DeleteStep
    \/ InsertStep
    \/ \E u \in Loggers, p \in PopularFavorites : AddFavorite(u, p)
    \/ \E u \in Loggers, p \in PopularFavorites : RemoveFavorite(u, p)
    \/ \E u \in Loggers, shape \in {s \in BehaviorShapes : s.action_type = "view"} :
          LogBehavior(u, shape)
    \/ \E d \in RetentionDays : cleanup_old_behavior(d)
    \/ Tick

SpecMarks == StoreInit0 /\ [][MarksNext]_vars

\* ============================================================== properties
\* The step in which caller p, serving assign_user_to_variant or
\* get_user_variant, runs the body of assign_user_to_variant up to its insert;
\* the arguments are call'[p].user and call'[p].exp.
AssignRan(p) ==
    \/ call[p].pc = "idle" /\ call'[p].op = "assign"
    \/ call[p].pc = "assign" /\ call[p].op = "get" /\ call'[p].pc # "assign"

\* C1 (as the specification states it): whenever a row exists for the pair,
\* assign_user_to_variant returns the variant of that row and leaves the
\* table unchanged, whether or not the experiment is active.
C1_ExistingReturnedAlways ==
    [][\A p \in Callers :
          (AssignRan(p) /\ Existing(assignments, call'[p].user, call'[p].exp) # {})
              => /\ call'[p].pc = "done"
                 /\ call'[p].result =
                        FirstVariant(assignments, call'[p].user, call'[p].exp)
                 /\ assignments' = assignments]_vars

C3_InactiveReturnsControl ==
    [][\A p \in Callers :
          (/\ AssignRan(p)
           /\ call'[p].exp \in ExperimentNames
           /\ ~(/\ expActive[call'[p].exp]
                /\ StartDate <= today
                /\ today <= EndDate))
              => /\ call'[p].pc = "done"
                 /\ call'[p].result = "control"
                 /\ assignments' = assignments]_vars

\* A direct call for an experiment past its end_date was answered 'control'
\* and the pair has no row.
C3_Witness ==
    \E p \in Callers :
        /\ call[p].op = "assign"
        /\ call[p].pc = "done"
        /\ call[p].exp \in ExperimentNames
        /\ call[p].result = "control"
        /\ today > EndDate
        /\ Existing(assignments, call[p].user, call[p].exp) = {}

\* C4: the ABTestVariant table holds at most one row per (user,
\* experiment_name).
C4_OneRowPerPair ==
    \A r1, r2 \in assignments :
        (r1.user = r2.user /\ r1.experiment_name = r2.experiment_name) => r1 = r2

\* An insert for a pair that has a row was attempted and refused.
C4_Witness ==
    \E p \in Callers :
        /\ call[p].pc = "done"
        /\ call[p].op \in {"assign", "get"}
        /\ call[p].result = "IntegrityError"
        /\ Existing(assignments, call[p].user, call[p].exp) # {}

\* C5 (as the specification states it): no caller of assign_user_to_variant
\* or get_user_variant gets the uniqueness violation as its answer.
C5_NoCallerGetsError ==
    \A p \in Callers :
        call[p].op \in {"assign", "get"} => call[p].result # "IntegrityError"

\* The step in which build_user_recommendations(u) returns without raising.
BuildCompletes(u) ==
    /\ drv.cur = u
    /\ drv.pc \in {"compute", "insert"}
    /\ drv' # drv
    /\ drv'.pc \notin {"delete", "insert"}
    /\ drv'.log[u].outcome = "ok"

\* C6 (as the specification states it): no rebuild of a user is refused by
\* the store, and the list handed to save_user_recommendations names no
\* provider twice.
C6_RebuildNeverRefused ==
    /\ drv.pc \in {"delete", "insert"} =>
          \A i, j \in 1..Len(drv.list) :
              drv.list[i].provider_id = drv.list[j].provider_id => i = j
    /\ \A u \in Users : drv.log[u].outcome # "IntegrityError"

\* C7 (as the specification states it): when build_user_recommendations(u)
\* returns in a live run, the UserRecommendation rows of u, as the driver's
\* connection sees them, are the rows of the list that run computed.
C7_StoredIsComputed ==
    [][\A u \in Users :
          BuildCompletes(u)
              => RecsOf(IF txn'.open THEN txn'.recs ELSE recs', u)
                     = RecordsOf(u, drv'.log[u].list, today)]_vars

\* C8 (as the specification states it): between the delete and the insert of
\* a user who had rows, a reader of the committed table finds rows of that
\* user.
C8_ReaderNeverSeesNone ==
    (drv.pc = "insert" /\ drv.had) => RecsOf(recs, drv.cur) # {}

\* C9 (as the specification states it): in the batch run no user is skipped
\* because another user's insert was refused, and when a batch ends the rows
\* written for the users that were rebuilt are the committed rows.
C9_FailureConfined ==
    [][/\ \A u \in Users : drv'.log[u].outcome # "TransactionManagementError"
       /\ (drv.pc = "batch_end" /\ drv'.pc = "batch_begin")
             => \A u \in Users :
                   drv.log[u].outcome = "ok"
                       => RecsOf(recs', u) = RecsOf(txn.recs, u)]_vars

\* C10 (as the specification states it): build_user_recommendations does not
\* raise out of the fusion of the engines' scores.
C10_FusionNeverRaises ==
    \A u \in Users : drv.log[u].outcome # "KeyError"

NoHistory(u) ==
    /\ \A b \in behaviors : b.user # u
    /\ \A r \in reviews : r.user # u
    /\ \A f \in favorites : f[1] # u

\* C12: for a user without events, reviews and favourites the collaborative
\* and the content engine of the running command score no provider, and the
\* list build_user_recommendations makes for the user holds cold-start
\* entries only.
C12_NoHistoryColdStartOnly ==
    [][\A u \in Users :
          (NoHistory(u) /\ drv.pc = "compute" /\ drv.cur = u)
              => /\ CfScored(drv.cf, u, Providers) = {}
                 /\ ContentScored(drv.content, behaviors, favorites, reviews,
                                  u, Providers) = {}
                 /\ \A i \in 1..Len(drv'.list) :
                       drv'.list[i].algorithm_version
                           \in {"cold_start_popular_providers_v1.0",
                                "cold_start_category_based_v1.0"}]_vars

\* C13 (as the specification states it): in every list
\* generate_cold_start_recommendations returns, each score is strictly smaller
\* than the score one rank above it, and no score is below 0.3.
C13_ColdStartStrictlyDecreasing ==
    probe.op = "cold_start"
        => /\ \A i \in 1..Len(probe.list) : probe.list[i].score >= 30
           /\ \A i \in 1..(Len(probe.list) - 1) :
                 probe.list[i + 1].score < probe.list[i].score

EngineKeys == {"collaborative", "content", "location"}

\* The engines that scored provider p in the call under observation.
Contributing(p) == {e \in EngineKeys : p \in DOMAIN probe[e]}

RECURSIVE WeightedSum(_, _)
WeightedSum(S, p) ==
    IF S = {} THEN 0
    ELSE LET e == CHOOSE x \in S : TRUE
         IN  DefaultWeights[e] * probe[e][p] + WeightedSum(S \ {e}, p)

RECURSIVE WeightSum(_)
WeightSum(S) ==
    IF S = {} THEN 0
    ELSE LET e == CHOOSE x \in S : TRUE
         IN  DefaultWeights[e] + WeightSum(S \ {e})

C15_TiesByProviderId ==
    probe.op = "fusion"
        => /\ Len(probe.out.list) <= probe.top_k
           /\ \A i \in 1..(Len(probe.out.list) - 1) :
                 LET x == probe.out.list[i]
                     y == probe.out.list[i + 1]
                 IN  /\ x.num * y.den >= y.num * x.den
                     /\ x.num * y.den = y.num * x.den => x.provider_id < y.provider_id

\* C16 (as the specification states it): LocationBasedEngine.predict_scores
\* called without a location, for a user none of whose events with
\* coordinates falls in the last 30 days, returns an empty mapping.
C16_NoRecentGeoNoLocationScores ==
    (/\ probe.op = "location"
     /\ ~probe.user_location
     /\ ~get_user_location_preference(probe.behaviors, probe.user, today))
        => probe.out = {}

\* C17 (as the specification states it): the scores
\* CollaborativeFilteringEngine.predict_scores returns are never negative, and
\* the mapping is empty whenever the engine is not trained, the user has no
\* factor or one of the candidates has no factor.
C17_CfEmptyOnAnyUnknown ==
    probe.op = "cf"
        => /\ \A p \in DOMAIN probe.out : probe.out[p] >= 0
           /\ (\/ ~probe.cf.is_trained
               \/ probe.user \notin probe.cf.user_index_map
               \/ \E p \in probe.provider_ids : p \notin probe.cf.provider_index_map)
                 => DOMAIN probe.out = {}

\* C18 (as the specification states it): no two Review rows have the same
\* user and provider, and a review submitted for a pair that has one is
\* answered without an error and leaves the submitted row in place of the
\* old one.
C18_SecondRatingReplaces ==
    [][/\ \A x, y \in reviews' :
            (x.user = y.user /\ x.provider = y.provider) => x = y
       /\ (/\ reply' # reply
           /\ ReviewUniqueViolation(reviews, reply'.request.user, reply'.request.provider))
             => /\ reply'.status # 500
                /\ reviews' = {r \in reviews : ~(/\ r.user = reply'.request.user
                                                  /\ r.provider = reply'.request.provider)}
                                  \cup {reply'.request}]_vars

\* The step in which invalidate_user_cache(u) runs.
InvalidateStep(u) == probe' = [op |-> "invalidate_user_cache", user_id |-> u]

\* C19 (as the specification states it): after invalidate_user_cache(u),
\* get_user_recommendations(u, algorithm_version, location) is a miss for
\* every algorithm version and location, on both kinds of backend.
C19_InvalidatedListsMiss ==
    [][\A u \in CacheUsers :
          InvalidateStep(u)
              => \A a \in AlgorithmVersions, l \in Locations :
                    get_user_recommendations(cache', u, a, l) = "miss"]_vars

\* The entries of the users other than u and of the namespaces that are not
\* per user.
ForeignKeys(u) ==
    {UserRecsKey(v, a, l) : v \in CacheUsers \ {u}, a \in AlgorithmVersions, l \in Locations}
        \cup {UserBehaviorKey(v) : v \in CacheUsers \ {u}}
        \cup {ProviderFeaturesKey(1), AlgorithmModelKey("collaborative", "None"),
               ColdStartKey("None", "None"), PopularProvidersKey("None", "None", "week")}

\* C20 (as the specification states it): invalidate_user_cache(u) leaves in
\* the cache every entry of another user and every entry of the provider
\* feature, model, cold-start and popularity namespaces.
C20_OtherEntriesKept ==
    [][\A u \in CacheUsers :
          InvalidateStep(u) => (cache \cap ForeignKeys(u)) \subseteq cache']_vars

\* C21: a RecommendationCache read, write or invalidation whose backend call
\* raised has returned None (read) or False (write, invalidation) and has
\* not propagated the exception.
C21_BackendFailureDegrades ==
    (probe # NoProbe /\ probe.raised)
        => /\ ~probe.propagated
           /\ probe.result = IF probe.op = "read" THEN "None" ELSE "False"

\* An invalidation whose second backend call raised after the first one had
\* removed the user's recommendation lists.
C21_Witness ==
    /\ probe # NoProbe
    /\ probe.op = "invalidate"
    /\ probe.raised
    /\ probe.result = "False"
    /\ UserBehaviorKey(1) \in cache

\* A configuration the specification calls malformed: probability weights
\* summing above 1.0, or a start or end date that is missing or unparsable.
RECURSIVE TotalWeight(_)
TotalWeight(vs) == IF vs = << >> THEN 0 ELSE Head(vs).weight + TotalWeight(Tail(vs))

Malformed(config) ==
    \/ TotalWeight(config.variants) > 1000
    \/ config.start_date.kind # "date"
    \/ config.end_date.kind # "date"

\* C22 (as the specification states it): for an unknown experiment name or
\* a malformed configuration, assign_user_to_variant and get_user_variant,
\* called for a user without assignment, return 'control' and do not raise.
C22_MalformedFallsBackToControl ==
    (/\ probe # NoProbe
     /\ ~probe.assigned
     /\ \/ probe.experiment_name \notin ExperimentNames
        \/ Malformed(probe.config))
        => /\ probe.outcome.raised = "none"
           /\ probe.outcome.value = "control"

\* C23 (as the specification states it): calculate_distance gives the same
\* value with its two points exchanged, and 0 for two equal points, for
\* every pair of valid coordinates, those with latitude or longitude 0
\* included.
C23_DistanceSymmetricZeroOnSame ==
    probe # NoProbe
        => /\ probe.result
                 = calculate_distance(probe.lat2, probe.lng2, probe.lat1, probe.lng1)
           /\ (probe.lat1 = probe.lat2 /\ probe.lng1 = probe.lng2)
                 => probe.result = [finite |-> TRUE, km |-> 0]

\* C24 (as the specification states it): a run of cleanup_recommendations
\* with --dry-run leaves the recommendation records, the behaviour events
\* and the experiment assignments as they were, whatever the other options.
C24_DryRunChangesNothing ==
    [][\A o \in CleanupOptions :
          (o.dry_run /\ CleanupCommand(o))
              => UNCHANGED << recs, behaviors, assignments >>]_vars

\* C25: train() called when the store holds no interaction returns False
\* and leaves user_factors, provider_factors, both index maps and
\* is_trained as they were before the call.
C25_EmptyTrainLeavesModel ==
    [][TrainStart({})
          => /\ ModelData(engine') = ModelData(engine)
             /\ engine'.pc = "idle"
             /\ probe'.returned = "False"]_vars

\* train() has returned False for an empty store on an engine that an
\* earlier train() had trained, and the engine still holds that model.
C25_Witness ==
    /\ probe # NoProbe
    /\ probe.op = "train"
    /\ probe.interactions = {}
    /\ probe.returned = "False"
    /\ engine.is_trained
    /\ engine.user_index_map = {1, 2}
    /\ engine.user_factors = {1, 2}

\* C26 (as the specification states it): a reader whose predict_scores runs
\* while train() is in progress on the same engine, and finds the engine
\* trained, sees index maps and factor matrices of one training: the
\* previous model whole or the new model whole.
C26_ReaderSeesWholeModel ==
    (/\ probe # NoProbe
     /\ probe.op = "predict_scores"
     /\ probe.training
     /\ probe.seen.is_trained)
        => /\ probe.seen.user_index_map = probe.seen.user_factors
           /\ probe.seen.provider_index_map = probe.seen.provider_factors

\* C29 (as the specification states it): when no call is in progress and
\* is_trained holds, every row of user_index_map is a row of user_factors
\* and every row of provider_index_map is a row of provider_factors.
C29_TrainedMapsWithinFactors ==
    (engine.pc = "idle" /\ engine.is_trained)
        => /\ \A u \in engine.user_index_map :
                 Row(engine.user_index_map, u) < Cardinality(engine.user_factors)
           /\ \A p \in engine.provider_index_map :
                 Row(engine.provider_index_map, p) < Cardinality(engine.provider_factors)

\* The first variant, in configured order, whose cumulative weight exceeds
\* the normalized hash.
RECURSIVE FirstExceeding(_, _, _, _)
FirstExceeding(vs, i, cumulative_weight, normalized_hash) ==
    IF i > Len(vs) THEN "control"
    ELSE LET c == cumulative_weight + vs[i].weight
         IN  IF normalized_hash < c THEN vs[i].name
             ELSE FirstExceeding(vs, i + 1, c, normalized_hash)

\* The hash values, in thousandths, that the walk of the code gives to a variant.
BucketsOf(vs, name) == {h \in 0..999 : WalkVariants(vs, 1, 0, h) = name}

\* C27 (as the specification states it): for an active experiment and a user
\* without assignment, assign_user_to_variant persists the first variant
\* whose cumulative weight exceeds the normalized hash, and each variant
\* receives weight * 1000 of the 1000 hash values.
C27_VariantByCumulativeWeight ==
    (/\ probe # NoProbe
     /\ probe.op = "assign_user_to_variant"
     /\ probe.outcome.kind = "create")
        => LET vs == probe.config.variants
               expected == FirstExceeding(vs, 1, 0,
                               HashBucket(probe.user, probe.experiment_name))
           IN  /\ probe.outcome.value = expected
               /\ \E r \in Existing(assignments, probe.user, probe.experiment_name) :
                     r.variant = expected
               /\ \A i \in 1..Len(vs) :
                     Cardinality(BucketsOf(vs, vs[i].name)) = vs[i].weight

\* C28 (as the specification states it): no UserRecommendation (u, p) is
\* stored while u holds a Favorite on p.
C28_NoRecordOfFavorite ==
    \A r \in recs : << r.user, r.provider >> \notin favorites

\* C30 (as the specification states it): build_user_recommendations hands a
\* user to generate_cold_start_recommendations only if the user has no
\* event, no review and no favourite.
C30_ColdStartOnlyWithoutHistory ==
    [][\A u \in Users :
          (/\ drv.pc = "compute"
           /\ drv.cur = u
           /\ drv'.pc = "delete"
           /\ \E i \in 1..Len(drv'.list) :
                 drv'.list[i].algorithm_version
                     \in {"cold_start_popular_providers_v1.0",
                          "cold_start_category_based_v1.0"})
              => NoHistory(u)]_vars

====
